---------------------------- MODULE Spec2Model ----------------------------
(***************************************************************************)
(* A model of the value-store document engine: the recursive Value model,  *)
(* path navigation, the primitive changes (Insert / Replace / Delete), the *)
(* fold of changes into a ChangeTree, and the copy-on-write sharing of     *)
(* containers behind Arc.                                                  *)
(***************************************************************************)
EXTENDS Integers, Sequences, FiniteSets, TLC

VARIABLES
    mode,   \* which entry point this behaviour drives
    pc,     \* "idle": between calls; "returned": a call has just returned
    doc,    \* the document (`this: &mut Value`) the caller owns
    call,   \* the call that has just returned: its arguments and its result
    chain,  \* apply_iter calls made in a row: the document they started
            \* from and the changes of the earlier, successful call; for
            \* the Mutex, the guards handed out and the unlocks made so far
    tree,   \* the accumulator of ChangeTree::construct (Option<ChangeTree>)
    heap,   \* the Arc allocations: id -> [strong, data]
    roots,  \* the Values the caller owns, by name, as they lie in memory
    expect, \* by name, what the operations made on that Value alone give
    mutex,  \* the fields of the async Mutex: locked, queue, counter
    tasks,  \* by task: its lock future, its guard, whether it has been woken
    db,     \* the committed content of the SQLite database: changes, change_rels
    trans   \* by caller: its add_change future and the transaction it holds

vars == <<mode, pc, doc, call, chain, tree, heap, roots, expect, mutex, tasks,
          db, trans>>

(***************************************************************************)
(* Bounds of the model.                                                    *)
(***************************************************************************)
\* longest path of a change given to simple::apply
MaxPathLen == 2
\* most nodes (containers and leaves) of a document
MaxNodes == 4
\* most changes given to apply_iter, over the calls of one chain
MaxBatch == 2
\* most changes folded into a ChangeTree
MaxTreeChanges == 2

(***************************************************************************)
(* types/path_element.rs, types/value.rs, types/change.rs: the data.       *)
(***************************************************************************)
Field(name) == [kind |-> "Field", name |-> name]
Index(index) == [kind |-> "Index", index |-> index]

Integer(i) == [tag |-> "Integer", i |-> i]
Float(f) == [tag |-> "Float", f |-> f]
Bool(b) == [tag |-> "Bool", b |-> b]
String(s) == [tag |-> "String", s |-> s]
Blob(mime, data) == [tag |-> "Blob", mime |-> mime, data |-> data]
Array(elems) == [tag |-> "Array", elems |-> elems]
Map(entries) == [tag |-> "Map", entries |-> entries]

\* Value::default(): the empty Map
DefaultValue == Map(<<>>)

Insert(path, value) == [kind |-> "Insert", path |-> path, value |-> value]
Replace(path, old, new) == [kind |-> "Replace", path |-> path, old |-> old, new |-> new]
Delete(path, old) == [kind |-> "Delete", path |-> path, old |-> old]

\* Result<(), ValueStoreError>
Ok == [ok |-> TRUE]
InvalidChange(change) == [ok |-> FALSE, change |-> change]

\* Option<&Value>
None == [some |-> FALSE]
Some(value) == [some |-> TRUE, value |-> value]

(***************************************************************************)
(* f64 is modelled by a few bit patterns: the two zeroes, one ordinary     *)
(* number and two NaNs of different payload.                               *)
(***************************************************************************)
F64 == {"+0.0", "-0.0", "1.0", "NaN:max", "NaN:max-1"}
is_nan(f) == f \in {"NaN:max", "NaN:max-1"}
\* the IEEE 754 comparison `v1 == v2` of f64
f64_eq(v1, v2) ==
    /\ ~is_nan(v1)
    /\ ~is_nan(v2)
    /\ \/ v1 = v2
       \/ {v1, v2} = {"+0.0", "-0.0"}

(***************************************************************************)
(* impl PartialEq for Value                                                *)
(***************************************************************************)
RECURSIVE ValueEq(_, _)
ValueEq(v1, v2) ==
    IF v1.tag = "Integer" /\ v2.tag = "Integer" THEN v1.i = v2.i
    ELSE IF v1.tag = "Float" /\ v2.tag = "Float" THEN
        IF is_nan(v1.f) /\ is_nan(v2.f) THEN TRUE ELSE f64_eq(v1.f, v2.f)
    ELSE IF v1.tag = "Bool" /\ v2.tag = "Bool" THEN v1.b = v2.b
    ELSE IF v1.tag = "String" /\ v2.tag = "String" THEN v1.s = v2.s
    ELSE IF v1.tag = "Array" /\ v2.tag = "Array" THEN
        /\ Len(v1.elems) = Len(v2.elems)
        /\ \A n \in DOMAIN v1.elems : ValueEq(v1.elems[n], v2.elems[n])
    ELSE IF v1.tag = "Map" /\ v2.tag = "Map" THEN
        /\ Cardinality(DOMAIN v1.entries) = Cardinality(DOMAIN v2.entries)
        /\ \A k \in DOMAIN v1.entries :
              /\ k \in DOMAIN v2.entries
              /\ ValueEq(v1.entries[k], v2.entries[k])
    ELSE IF v1.tag = "Blob" /\ v2.tag = "Blob" THEN
        v1.mime = v2.mime /\ v1.data = v2.data
    ELSE FALSE

(***************************************************************************)
(* Value::get and Value::get_mut.  In this layer a Value is its content:   *)
(* get_mut finds what get finds, and a write through the reference it      *)
(* returns is `assign`.  The sharing of containers is modelled further     *)
(* down, on the heap.                                                      *)
(***************************************************************************)
RECURSIVE get(_, _)
get(self, path) ==
    IF path = <<>> THEN Some(self)
    ELSE LET this == Head(path)
             next == Tail(path)
         IN  IF this.kind = "Field" /\ self.tag = "Map" THEN
                 IF this.name \in DOMAIN self.entries
                 THEN get(self.entries[this.name], next)
                 ELSE None
             ELSE IF this.kind = "Index" /\ self.tag = "Array" THEN
                 IF this.index + 1 \in DOMAIN self.elems
                 THEN get(self.elems[this.index + 1], next)
                 ELSE None
             ELSE None

RECURSIVE get_mut(_, _)
get_mut(self, path) ==
    IF path = <<>> THEN Some(self)
    ELSE LET this == Head(path)
             next == Tail(path)
         IN  IF this.kind = "Field" /\ self.tag = "Map" THEN
                 IF this.name \in DOMAIN self.entries
                 THEN get_mut(self.entries[this.name], next)
                 ELSE None
             ELSE IF this.kind = "Index" /\ self.tag = "Array" THEN
                 IF this.index + 1 \in DOMAIN self.elems
                 THEN get_mut(self.elems[this.index + 1], next)
                 ELSE None
             ELSE None

\* `*r = new` for the reference r that get_mut(self, path) returned
RECURSIVE assign(_, _, _)
assign(self, path, new) ==
    IF path = <<>> THEN new
    ELSE LET this == Head(path)
             next == Tail(path)
         IN  IF this.kind = "Field"
             THEN Map([self.entries EXCEPT
                        ![this.name] = assign(self.entries[this.name], next, new)])
             ELSE Array([self.elems EXCEPT
                        ![this.index + 1] = assign(self.elems[this.index + 1], next, new)])

\* HashMap entry removal, Vec::remove, HashMap vacant-entry insert, Vec::insert
map_remove(entries, name) == [k \in DOMAIN entries \ {name} |-> entries[k]]
vec_remove(elems, index) ==
    [n \in 1..(Len(elems) - 1) |-> IF n <= index THEN elems[n] ELSE elems[n + 1]]
map_insert(entries, name, value) ==
    [k \in DOMAIN entries \cup {name} |-> IF k = name THEN value ELSE entries[k]]
vec_insert_append(elems, index, value) == Append(elems, value)
vec_insert(elems, index, value) ==
    [n \in 1..(Len(elems) + 1) |->
        IF n <= index THEN elems[n]
        ELSE IF n = index + 1 THEN value
        ELSE elems[n - 1]]

(***************************************************************************)
(* apply/simple.rs.  Each primitive returns the document it leaves behind  *)
(* (`this`) and its Result.  The arms that work on the parent container    *)
(* work through a `&mut`: what they leave in the container stays in the    *)
(* document whatever they return, so each arm returns the container it     *)
(* leaves (`data`) beside its Result.                                      *)
(***************************************************************************)
Parent(path) == SubSeq(path, 1, Len(path) - 1)
Last(path) == path[Len(path)]

\* apply_delete, the (Value::Map, PathElement::Field) arm
delete_field_unchecked(map, name, old, err) ==
    IF name \in DOMAIN map
    THEN [data |-> map_remove(map, name), res |-> Ok]
    ELSE [data |-> map, res |-> err]
delete_field(map, name, old, err) ==
    IF name \in DOMAIN map THEN
        IF ValueEq(old, map[name])
        THEN [data |-> map_remove(map, name), res |-> Ok]
        ELSE [data |-> map, res |-> err]
    ELSE [data |-> map, res |-> err]

\* apply_delete, the (Value::Array, PathElement::Index) arm
delete_index_then_compare(vec, index, old, err) ==
    IF index >= Len(vec) THEN [data |-> vec, res |-> err]
    ELSE [data |-> vec_remove(vec, index),
          res |-> IF ValueEq(vec[index + 1], old) THEN Ok ELSE err]
delete_index(vec, index, old, err) ==
    IF index >= Len(vec) THEN [data |-> vec, res |-> err]
    ELSE IF ValueEq(vec[index + 1], old)
    THEN [data |-> vec_remove(vec, index), res |-> Ok]
    ELSE [data |-> vec, res |-> err]

apply_delete(this, path, old, full_path) ==
    LET err == InvalidChange(Delete(full_path, old))
    IN  IF path = <<>> THEN [this |-> this, res |-> err]
        ELSE LET parent == get_mut(this, Parent(path))
                 last == Last(path)
             IN  IF ~parent.some THEN [this |-> this, res |-> err]
                 ELSE IF parent.value.tag = "Map" /\ last.kind = "Field" THEN
                     LET r == delete_field(parent.value.entries, last.name, old, err)
                     IN  [this |-> assign(this, Parent(path), Map(r.data)),
                          res |-> r.res]
                 ELSE IF parent.value.tag = "Array" /\ last.kind = "Index" THEN
                     LET r == delete_index(parent.value.elems, last.index, old, err)
                     IN  [this |-> assign(this, Parent(path), Array(r.data)),
                          res |-> r.res]
                 ELSE [this |-> this, res |-> err]

\* apply_replace, the comparison of old with the value found
replace_bitwise(old, val) == old = val
replace_precondition(old, val) == ValueEq(old, val)

apply_replace(this, path, old, new, full_path) ==
    LET err == InvalidChange(Replace(full_path, old, new))
        val == get_mut(this, path)
    IN  IF val.some THEN
            IF replace_precondition(old, val.value)
            THEN [this |-> assign(this, path, new), res |-> Ok]
            ELSE [this |-> this, res |-> err]
        ELSE [this |-> this, res |-> err]

\* apply_insert, the (Value::Map, PathElement::Field) arm
insert_field_overwriting(map, name, value, err) ==
    [data |-> map_insert(map, name, value), res |-> Ok]
insert_field(map, name, value, err) ==
    IF name \in DOMAIN map
    THEN [data |-> map, res |-> err]
    ELSE [data |-> map_insert(map, name, value), res |-> Ok]

\* apply_insert, the (Value::Array, PathElement::Index) arm
insert_index_no_append(vec, index, value, err) ==
    IF index >= Len(vec)
    THEN [data |-> vec, res |-> err]
    ELSE [data |-> vec_insert(vec, index, value), res |-> Ok]
insert_index(vec, index, value, err) ==
    IF index > Len(vec)
    THEN [data |-> vec, res |-> err]
    ELSE [data |-> vec_insert(vec, index, value), res |-> Ok]

\* the error of apply_insert: the change as the caller gave it
insert_error_stripped(path, value, full_path) == InvalidChange(Insert(path, value))
insert_error(path, value, full_path) == InvalidChange(Insert(full_path, value))

apply_insert(this, path, value, full_path) ==
    LET err == insert_error(path, value, full_path)
    IN  IF path = <<>> THEN [this |-> this, res |-> err]
        ELSE LET parent == get_mut(this, Parent(path))
                 last == Last(path)
             IN  IF ~parent.some THEN [this |-> this, res |-> err]
                 ELSE IF parent.value.tag = "Map" /\ last.kind = "Field" THEN
                     LET r == insert_field(parent.value.entries, last.name, value, err)
                     IN  [this |-> assign(this, Parent(path), Map(r.data)),
                          res |-> r.res]
                 ELSE IF parent.value.tag = "Array" /\ last.kind = "Index" THEN
                     LET r == insert_index(parent.value.elems, last.index, value, err)
                     IN  [this |-> assign(this, Parent(path), Array(r.data)),
                          res |-> r.res]
                 ELSE [this |-> this, res |-> err]

apply(this, change) ==
    IF change.kind = "Insert"
    THEN apply_insert(this, change.path, change.value, change.path)
    ELSE IF change.kind = "Replace"
    THEN apply_replace(this, change.path, change.old, change.new, change.path)
    ELSE apply_delete(this, change.path, change.old, change.path)

(***************************************************************************)
(* Value::apply_iter: `for change in i { self.apply(change)?; } Ok(())`.   *)
(***************************************************************************)
\* a loop that undoes the changes it has made when one fails
RECURSIVE apply_iter_rollback_from(_, _, _)
apply_iter_rollback_from(start, self, i) ==
    IF i = <<>> THEN [this |-> self, res |-> Ok]
    ELSE LET r == apply(self, Head(i))
         IN  IF r.res.ok
             THEN apply_iter_rollback_from(start, r.this, Tail(i))
             ELSE [this |-> start, res |-> r.res]
apply_iter_rollback(self, i) == apply_iter_rollback_from(self, self, i)
\* a loop that goes on after a failure and reports the first one
RECURSIVE apply_iter_keep_going(_, _)
apply_iter_keep_going(self, i) ==
    IF i = <<>> THEN [this |-> self, res |-> Ok]
    ELSE LET r == apply(self, Head(i))
             rest == apply_iter_keep_going(r.this, Tail(i))
         IN  IF r.res.ok THEN rest ELSE [this |-> rest.this, res |-> r.res]
RECURSIVE apply_iter(_, _)
apply_iter(self, i) ==
    IF i = <<>> THEN [this |-> self, res |-> Ok]
    ELSE LET r == apply(self, Head(i))
         IN  IF r.res.ok THEN apply_iter(r.this, Tail(i)) ELSE r

(***************************************************************************)
(* The inputs: path elements, paths, values and changes.                   *)
(***************************************************************************)
Keys == {"a", "b"}
Indices == {0, 1}
PathElements == {Field(k) : k \in Keys} \cup {Index(i) : i \in Indices}
Paths == UNION {[1..n -> PathElements] : n \in 0..MaxPathLen}
Values == {Float("+0.0"), Float("-0.0"), Float("NaN:max"), Map(<<>>), Array(<<>>)}
Changes ==
    {Insert(p, v) : p \in Paths, v \in Values}
    \cup {Replace(p, o, n) : p \in Paths, o \in Values, n \in Values}
    \cup {Delete(p, o) : p \in Paths, o \in Values}

RECURSIVE Nodes(_)
Nodes(v) ==
    IF v.tag = "Array" THEN
        LET RECURSIVE Sum(_)
            Sum(n) == IF n = 0 THEN 0 ELSE Nodes(v.elems[n]) + Sum(n - 1)
        IN  1 + Sum(Len(v.elems))
    ELSE IF v.tag = "Map" THEN
        LET RECURSIVE SumK(_)
            SumK(ks) == IF ks = {} THEN 0
                        ELSE LET k == CHOOSE x \in ks : TRUE
                             IN  Nodes(v.entries[k]) + SumK(ks \ {k})
        IN  1 + SumK(DOMAIN v.entries)
    ELSE 1

NoCall == [change |-> <<>>]
NoChain == [calls |-> 0]

(***************************************************************************)
(* simple::apply, called on the caller's document.                         *)
(***************************************************************************)
Apply(change) ==
    /\ mode = "apply"
    /\ pc = "idle"
    /\ LET r == apply(doc, change)
       IN  /\ Nodes(r.this) <= MaxNodes
           /\ doc' = r.this
           /\ call' = [change |-> change, before |-> doc, res |-> r.res]
    /\ pc' = "returned"
    /\ UNCHANGED <<mode, chain, tree, heap, roots, expect, mutex, tasks, db, trans>>

Return ==
    /\ mode = "apply"
    /\ pc = "returned"
    /\ pc' = "idle"
    /\ call' = NoCall
    /\ UNCHANGED <<mode, doc, chain, tree, heap, roots, expect, mutex, tasks, db, trans>>

InitIdle ==
    /\ pc = "idle"
    /\ doc = DefaultValue
    /\ call = NoCall
    /\ chain = NoChain
    /\ tree = None
    /\ heap = <<>>
    /\ roots = <<>>
    /\ expect = <<>>
    /\ mutex = <<>>
    /\ tasks = <<>>
    /\ db = <<>>
    /\ trans = <<>>

InitApply == mode = "apply" /\ InitIdle
NextApply == (\E change \in Changes : Apply(change)) \/ Return
SpecApply == InitApply /\ [][NextApply]_vars


(***************************************************************************)
(* Value::apply_iter, called on the caller's document: one call, or two    *)
(* calls in a row, and the caller's undoing of a successful call by the    *)
(* inverse changes in reverse order.                                       *)
(***************************************************************************)
IterPaths == {<<Field("a")>>, <<Field("a"), Index(0)>>, <<Field("a"), Index(1)>>}
IterValues == {Float("+0.0"), Float("-0.0"), Array(<<>>)}
IterChanges ==
    {Insert(p, v) : p \in IterPaths, v \in IterValues}
    \cup {Replace(p, o, n) : p \in IterPaths, o \in IterValues, n \in IterValues}
    \cup {Delete(p, o) : p \in IterPaths, o \in IterValues}
Batches(len) == UNION {[1..n -> IterChanges] : n \in 0..len}

\* Insert{p, x} <-> Delete{p, old: x}, Replace{p, a, b} <-> Replace{p, b, a}
inverse(change) ==
    IF change.kind = "Insert" THEN Delete(change.path, change.value)
    ELSE IF change.kind = "Delete" THEN Insert(change.path, change.old)
    ELSE Replace(change.path, change.new, change.old)
inverses(changes) ==
    [n \in 1..Len(changes) |-> inverse(changes[Len(changes) + 1 - n])]

EarlierChanges == IF chain.calls = 0 THEN <<>> ELSE chain.first

ApplyIter(i) ==
    /\ mode = "iter"
    /\ pc = "idle"
    /\ LET r == apply_iter(doc, i)
       IN  /\ Nodes(r.this) <= MaxNodes
           /\ doc' = r.this
           /\ call' = [changes |-> i, before |-> doc, res |-> r.res]
    /\ chain' = IF chain.calls = 0 THEN [calls |-> 0, start |-> doc] ELSE chain
    /\ pc' = "returned"
    /\ UNCHANGED <<mode, tree, heap, roots, expect, mutex, tasks, db, trans>>

\* the caller goes on to a second call
Continue ==
    /\ mode = "iter"
    /\ pc = "returned"
    /\ chain.calls = 0
    /\ call.res.ok
    /\ chain' = [calls |-> 1, start |-> chain.start, first |-> call.changes]
    /\ call' = NoCall
    /\ pc' = "idle"
    /\ UNCHANGED <<mode, doc, tree, heap, roots, expect, mutex, tasks, db, trans>>

\* the caller undoes the call that has just succeeded
Undo ==
    /\ mode = "iter"
    /\ pc = "returned"
    /\ call.res.ok
    /\ LET r == apply_iter(doc, inverses(call.changes))
       IN  /\ doc' = r.this
           /\ call' = [changes |-> inverses(call.changes), before |-> doc,
                       res |-> r.res, undoes |-> call]
    /\ pc' = "undone"
    /\ UNCHANGED <<mode, chain, tree, heap, roots, expect, mutex, tasks, db, trans>>

\* the caller starts afresh from the document as it is
IterReturn ==
    /\ mode = "iter"
    /\ pc \in {"returned", "undone"}
    /\ pc' = "idle"
    /\ call' = NoCall
    /\ chain' = NoChain
    /\ UNCHANGED <<mode, doc, tree, heap, roots, expect, mutex, tasks, db, trans>>

InitIter == mode = "iter" /\ InitIdle
NextIter ==
    \/ \E i \in Batches(MaxBatch - Len(EarlierChanges)) : ApplyIter(i)
    \/ Continue
    \/ Undo
    \/ IterReturn
SpecIter == InitIter /\ [][NextIter]_vars

(***************************************************************************)
(* conflict.rs: the ChangeTree and the fold of changes into it.            *)
(***************************************************************************)
TreeReplace(old, new, changes) ==
    [node |-> "Replace", old |-> old, new |-> new, changes |-> changes]
TreeRemove(old, changes) == [node |-> "Remove", old |-> old, changes |-> changes]
TreeAdd(new, changes) == [node |-> "Add", new |-> new, changes |-> changes]
\* Array(BTreeMap<u32, ChangeTree>) and Map(HashMap<String, ChangeTree>)
TreeArray(data) == [node |-> "Array", data |-> data]
TreeMap(fields) == [node |-> "Map", fields |-> fields]

\* todo!(): the thread panics
Panic == [ok |-> FALSE, panic |-> "not yet implemented"]

\* from_insert, from_replace and from_delete build the spine of a path
from_insert_flat(path, value, index) == TreeAdd(value, <<Insert(path, value)>>)
RECURSIVE from_insert(_, _, _)
from_insert(path, value, index) ==
    IF index < Len(path) THEN
        LET elem == path[index + 1]
        IN  IF elem.kind = "Field"
            THEN TreeMap([k \in {elem.name} |-> from_insert(path, value, index + 1)])
            ELSE TreeArray([k \in {elem.index} |-> from_insert(path, value, index + 1)])
    ELSE TreeAdd(value, <<Insert(path, value)>>)

RECURSIVE from_replace(_, _, _, _)
from_replace(path, old, new, index) ==
    IF index < Len(path) THEN
        LET elem == path[index + 1]
        IN  IF elem.kind = "Field"
            THEN TreeMap([k \in {elem.name} |-> from_replace(path, old, new, index + 1)])
            ELSE TreeArray([k \in {elem.index} |-> from_replace(path, old, new, index + 1)])
    ELSE TreeReplace(old, new, <<Replace(path, old, new)>>)

\* a Remove leaf that keeps no record of its change
from_delete_unrecorded(path, old, index) == TreeRemove(old, <<>>)
RECURSIVE from_delete(_, _, _)
from_delete(path, old, index) ==
    IF index < Len(path) THEN
        LET elem == path[index + 1]
        IN  IF elem.kind = "Field"
            THEN TreeMap([k \in {elem.name} |-> from_delete(path, old, index + 1)])
            ELSE TreeArray([k \in {elem.index} |-> from_delete(path, old, index + 1)])
    ELSE TreeRemove(old, <<Delete(path, old)>>)

\* a child put at i over whatever the map holds
array_insert_child_no_shift(map, i, child) ==
    [k \in DOMAIN map \cup {i} |-> IF k = i THEN child ELSE map[k]]
\* split_off(i), insert at i, and every later child put back one key up
array_insert_child(map, i, child) ==
    [k \in {j \in DOMAIN map : j < i} \cup {i} \cup {j + 1 : j \in {j \in DOMAIN map : j >= i}} |->
        IF k < i THEN map[k]
        ELSE IF k = i THEN child
        ELSE map[k - 1]]
map_insert_child(map, name, child) ==
    [k \in DOMAIN map \cup {name} |-> IF k = name THEN child ELSE map[k]]

\* the sub-path a leaf hands to the primitive: &path[index + 1..]
leaf_path(path, index) == SubSeq(path, index + 2, Len(path))

\* add_change_insert returns the node it leaves in place of self, and its
\* Result
RECURSIVE add_change_insert(_, _, _, _)
add_change_insert(self, path, value, index) ==
    LET err == InvalidChange(Insert(path, value))
    IN  IF index < Len(path) THEN
            LET elem == path[index + 1]
            IN  IF self.node = "Replace" THEN
                    LET r == apply_insert(self.new, leaf_path(path, index), value, path)
                    IN  IF r.res.ok
                        THEN [this |-> TreeReplace(self.old, r.this,
                                           Append(self.changes, Insert(path, value))),
                              res |-> Ok]
                        ELSE [this |-> TreeReplace(self.old, r.this, self.changes),
                              res |-> r.res]
                ELSE IF self.node = "Remove" THEN [this |-> self, res |-> err]
                ELSE IF self.node = "Add" THEN
                    LET r == apply_insert(self.new, leaf_path(path, index), value, path)
                    IN  IF r.res.ok
                        THEN [this |-> TreeAdd(r.this,
                                           Append(self.changes, Insert(path, value))),
                              res |-> Ok]
                        ELSE [this |-> TreeAdd(r.this, self.changes), res |-> r.res]
                ELSE IF self.node = "Array" THEN
                    IF elem.kind = "Index" THEN
                        IF elem.index \in DOMAIN self.data THEN
                            LET r == add_change_insert(self.data[elem.index],
                                                       path, value, index + 1)
                            IN  [this |-> TreeArray([self.data EXCEPT
                                                      ![elem.index] = r.this]),
                                 res |-> r.res]
                        ELSE [this |-> TreeArray(array_insert_child(self.data, elem.index,
                                            from_insert(path, value, index + 1))),
                              res |-> Ok]
                    ELSE [this |-> self, res |-> err]
                ELSE \* ChangeTree::Map
                    IF elem.kind = "Field" THEN
                        IF elem.name \in DOMAIN self.fields THEN
                            LET r == add_change_insert(self.fields[elem.name],
                                                       path, value, index + 1)
                            IN  [this |-> TreeMap([self.fields EXCEPT
                                                    ![elem.name] = r.this]),
                                 res |-> r.res]
                        ELSE [this |-> TreeMap(map_insert_child(self.fields, elem.name,
                                            from_insert(path, value, index + 1))),
                              res |-> Ok]
                    ELSE [this |-> self, res |-> err]
        ELSE IF self.node = "Remove"
             THEN [this |-> TreeReplace(self.old, value,
                                Append(self.changes, Insert(path, value))),
                   res |-> Ok]
             ELSE [this |-> self, res |-> err]

\* add_change on the accumulator `this: &mut Option<ChangeTree>`
add_change_overwriting(this, change) ==
    [this |-> Some(IF change.kind = "Insert"
                   THEN from_insert(change.path, change.value, 0)
                   ELSE IF change.kind = "Replace"
                   THEN from_replace(change.path, change.old, change.new, 0)
                   ELSE from_delete(change.path, change.old, 0)),
     res |-> Ok]
add_change(this, change) ==
    IF this.some THEN
        IF change.kind = "Insert" THEN
            LET r == add_change_insert(this.value, change.path, change.value, 0)
            IN  [this |-> Some(r.this), res |-> r.res]
        ELSE [this |-> this, res |-> Panic]
    ELSE [this |-> Some(IF change.kind = "Insert"
                        THEN from_insert(change.path, change.value, 0)
                        ELSE IF change.kind = "Replace"
                        THEN from_replace(change.path, change.old, change.new, 0)
                        ELSE from_delete(change.path, change.old, 0)),
          res |-> Ok]

\* the changes a tree holds, over all its leaves
RECURSIVE Folded(_)
Folded(t) ==
    IF t.node = "Array" THEN
        LET RECURSIVE SumI(_)
            SumI(ks) == IF ks = {} THEN 0
                        ELSE LET k == CHOOSE x \in ks : TRUE
                             IN  Folded(t.data[k]) + SumI(ks \ {k})
        IN  SumI(DOMAIN t.data)
    ELSE IF t.node = "Map" THEN
        LET RECURSIVE SumF(_)
            SumF(ks) == IF ks = {} THEN 0
                        ELSE LET k == CHOOSE x \in ks : TRUE
                             IN  Folded(t.fields[k]) + SumF(ks \ {k})
        IN  SumF(DOMAIN t.fields)
    ELSE Len(t.changes)

(***************************************************************************)
(* ChangeTree::construct, one change of the iterator at a time.  An error  *)
(* or a panic ends the fold and drops the accumulator.                     *)
(***************************************************************************)
TreePaths ==
    {<<>>,
     <<Field("a")>>, <<Index(0)>>,
     <<Field("a"), Field("b")>>, <<Field("a"), Index(0)>>, <<Index(0), Index(0)>>,
     <<Field("a"), Field("b"), Field("a")>>, <<Field("a"), Index(0), Index(0)>>,
     <<Index(1)>>, <<Index(0), Index(1)>>}
TreeValues == {Float("+0.0"), Map(<<>>), Array(<<>>)}
TreeChanges ==
    {Insert(p, v) : p \in TreePaths, v \in TreeValues}
    \cup {Replace(p, o, n) : p \in TreePaths, o \in TreeValues, n \in TreeValues}
    \cup {Delete(p, o) : p \in TreePaths, o \in TreeValues}

AddChange(change) ==
    /\ mode = "tree"
    /\ pc = "idle"
    /\ tree.some => Folded(tree.value) < MaxTreeChanges
    /\ LET r == add_change(tree, change)
       IN  /\ tree' = r.this
           /\ call' = [change |-> change, before |-> tree, res |-> r.res]
    /\ pc' = "returned"
    /\ UNCHANGED <<mode, doc, chain, heap, roots, expect, mutex, tasks, db, trans>>

\* construct goes on to the next change, or has ended and is called anew
TreeReturn ==
    /\ mode = "tree"
    /\ pc = "returned"
    /\ tree' = IF call.res.ok THEN tree ELSE None
    /\ call' = NoCall
    /\ pc' = "idle"
    /\ UNCHANGED <<mode, doc, chain, heap, roots, expect, mutex, tasks, db, trans>>

InitTree == mode = "tree" /\ InitIdle
NextTree == (\E change \in TreeChanges : AddChange(change)) \/ TreeReturn
SpecTree == InitTree /\ [][NextTree]_vars

\* a fold that leaves out the changes that fail
RECURSIVE construct_lenient_from(_, _)
construct_lenient_step(res, r, rest) ==
    construct_lenient_from(IF r.res.ok THEN r.this ELSE res, rest)
construct_lenient_from(res, iter) ==
    IF iter = <<>> THEN [ok |-> TRUE, tree |-> res]
    ELSE construct_lenient_step(res, add_change(res, Head(iter)), Tail(iter))
construct_lenient(iter) == construct_lenient_from(None, iter)
\* ChangeTree::construct: the tree of a whole sequence of changes
RECURSIVE construct_from(_, _)
construct_next(r, rest) ==
    IF r.res.ok THEN construct_from(r.this, rest) ELSE r.res
construct_from(res, iter) ==
    IF iter = <<>> THEN [ok |-> TRUE, tree |-> res]
    ELSE construct_next(add_change(res, Head(iter)), Tail(iter))
construct(iter) == construct_from(None, iter)

\* ChangeTree::construct called on a whole sequence
ConstructPaths ==
    {<<>>, <<Field("a")>>, <<Field("b")>>, <<Index(0)>>, <<Index(1)>>,
     <<Field("a"), Index(0)>>}
ConstructValues == {Float("+0.0"), Array(<<>>)}
ConstructChanges ==
    {Insert(p, v) : p \in ConstructPaths, v \in ConstructValues}
    \cup {Replace(p, o, n) : p \in ConstructPaths, o \in ConstructValues,
                             n \in ConstructValues}
    \cup {Delete(p, o) : p \in ConstructPaths, o \in ConstructValues}
ConstructBatches == UNION {[1..n -> ConstructChanges] : n \in 0..MaxTreeChanges}

Construct(iter) ==
    /\ mode = "construct"
    /\ pc = "idle"
    /\ pc' = "returned"
    /\ call' = [change |-> <<>>, iter |-> iter, res |-> construct(iter)]
    /\ UNCHANGED <<mode, doc, chain, tree, heap, roots, expect, mutex, tasks, db, trans>>

ConstructReturn ==
    /\ mode = "construct"
    /\ pc = "returned"
    /\ pc' = "idle"
    /\ call' = NoCall
    /\ UNCHANGED <<mode, doc, chain, tree, heap, roots, expect, mutex, tasks, db, trans>>

InitConstruct == mode = "construct" /\ InitIdle
NextConstruct == (\E iter \in ConstructBatches : Construct(iter)) \/ ConstructReturn
SpecConstruct == InitConstruct /\ [][NextConstruct]_vars

(***************************************************************************)
(* apply/tree.rs: apply_tree_inner, the application of a whole ChangeTree  *)
(* to a Value.  The file writes to `*self` where its parameter is `this`;  *)
(* the model reads it as the write to `*this` that the signature allows.   *)
(***************************************************************************)
InvalidTreeChange(change, path) == [ok |-> FALSE, tree_change |-> change, path |-> path]
\* unreachable!(): the thread panics
Unreachable == [ok |-> FALSE, panic |-> "internal error: entered unreachable code"]

tree_replace(this, changes, path) ==
    IF ValueEq(changes.old, this) THEN [this |-> changes.new, res |-> Ok]
    ELSE [this |-> this, res |-> InvalidTreeChange(changes, path)]
apply_tree_inner(this, changes, path) ==
    IF changes.node = "Replace" THEN tree_replace(this, changes, path)
    ELSE IF changes.node \in {"Remove", "Add"} THEN
        IF path = <<>> THEN [this |-> this, res |-> InvalidTreeChange(changes, <<>>)]
        ELSE [this |-> this, res |-> Unreachable]
    ELSE IF changes.node = "Array" THEN
        \* the loop over the children looks each one up and does nothing
        IF this.tag = "Array" THEN [this |-> this, res |-> Ok]
        ELSE [this |-> this, res |-> InvalidTreeChange(changes, path)]
    ELSE [this |-> this, res |-> Panic]

TreeDocs ==
    {Map(<<>>), Array(<<>>), Float("+0.0"), Map("a" :> Float("+0.0")),
     Array(<<Float("+0.0")>>)}

\* the tree of a sequence of changes applied to a document at the root
TreeApplied(this, iter, made, r) ==
    /\ pc' = "returned"
    /\ doc' = r.this
    /\ call' = [change |-> <<>>, op |-> "apply_tree", before |-> this, iter |-> iter,
                made |-> made, seq |-> apply_iter(this, iter), res |-> r.res]
    /\ UNCHANGED <<mode, chain, tree, heap, roots, expect, mutex, tasks, db, trans>>
ApplyTreeTo(this, iter, made) ==
    /\ made.ok
    /\ made.tree.some
    /\ TreeApplied(this, iter, made.tree.value,
                   apply_tree_inner(this, made.tree.value, <<>>))
ApplyTree(this, iter) ==
    /\ mode = "apply_tree" /\ pc = "idle"
    /\ ApplyTreeTo(this, iter, construct(iter))
ApplyTreeReturn ==
    /\ mode = "apply_tree" /\ pc = "returned"
    /\ pc' = "idle"
    /\ doc' = DefaultValue
    /\ call' = NoCall
    /\ UNCHANGED <<mode, chain, tree, heap, roots, expect, mutex, tasks, db, trans>>

InitApplyTree == mode = "apply_tree" /\ InitIdle
NextApplyTree ==
    \/ \E this \in TreeDocs, iter \in ConstructBatches : ApplyTree(this, iter)
    \/ ApplyTreeReturn
SpecApplyTree == InitApplyTree /\ [][NextApplyTree]_vars

\* simple::apply and ChangeTree::add_change, each on its own
InitChange == mode \in {"apply", "tree"} /\ InitIdle
NextChange == NextApply \/ NextTree
SpecChange == InitChange /\ [][NextChange]_vars

(***************************************************************************)
(* conflict.rs: the merge of two change sequences over a common ancestor.  *)
(***************************************************************************)
Active(common_value, conflicts, common_changes) ==
    [conflict |-> "Active", common_value |-> common_value,
     conflicts |-> conflicts, common_changes |-> common_changes]
Resolved(value, changes) ==
    [conflict |-> "Resolved", value |-> value, changes |-> changes]

check_conflicts_common_ancestor(ancestor, change1, change2) == None

ConflictAncestors ==
    {Map([k \in {"x", "y"} |-> IF k = "x" THEN Integer(1) ELSE Integer(2)]),
     Map([k \in {"x"} |-> Integer(1)]),
     Map(<<>>)}
ConflictChanges ==
    {Replace(<<Field("x")>>, Integer(1), Integer(10)),
     Replace(<<Field("x")>>, Integer(1), Integer(11)),
     Replace(<<Field("y")>>, Integer(2), Integer(20)),
     Insert(<<Field("z")>>, Integer(3)),
     Delete(<<Field("y")>>, Integer(2))}
ConflictBatches == UNION {[1..n -> ConflictChanges] : n \in 0..MaxBatch}

CheckConflicts(ancestor, change1, change2) ==
    /\ mode = "conflict"
    /\ pc = "idle"
    /\ pc' = "returned"
    /\ call' = [change |-> <<>>, ancestor |-> ancestor,
                change1 |-> change1, change2 |-> change2,
                res |-> check_conflicts_common_ancestor(ancestor, change1, change2)]
    /\ UNCHANGED <<mode, doc, chain, tree, heap, roots, expect, mutex, tasks, db, trans>>

ConflictReturn ==
    /\ mode = "conflict"
    /\ pc = "returned"
    /\ pc' = "idle"
    /\ call' = NoCall
    /\ UNCHANGED <<mode, doc, chain, tree, heap, roots, expect, mutex, tasks, db, trans>>

InitConflict == mode = "conflict" /\ InitIdle
NextConflict ==
    \/ \E ancestor \in ConflictAncestors, change1 \in ConflictBatches,
          change2 \in ConflictBatches : CheckConflicts(ancestor, change1, change2)
    \/ ConflictReturn
SpecConflict == InitConflict /\ [][NextConflict]_vars

(***************************************************************************)
(* The containers in memory.  Value::Array and Value::Map hold an Arc: a   *)
(* Value in memory is a leaf or a tag with the id of an allocation, and    *)
(* an allocation holds its strong count and, as data, the Values of the    *)
(* container.  Value::clone clones the Arc, Arc::make_mut clones the data  *)
(* unless the Arc is the only one, and a dropped Arc frees the allocation  *)
(* when it was the last.                                                   *)
(***************************************************************************)
ArcArray(arc) == [tag |-> "Array", arc |-> arc]
ArcMap(arc) == [tag |-> "Map", arc |-> arc]
IsArc(val) == val.tag \in {"Array", "Map"}

fresh(h) == CHOOSE id \in 1..(Cardinality(DOMAIN h) + 1) :
                /\ id \notin DOMAIN h
                /\ \A j \in 1..(id - 1) : j \in DOMAIN h

\* Value::clone (#[derive(Clone)]): Arc::clone of a container, a copy of a leaf
value_clone(h, val) ==
    IF IsArc(val) THEN [h EXCEPT ![val.arc].strong = @ + 1] ELSE h

\* the clone of every Value of a container's data
RECURSIVE clone_data(_, _, _)
clone_data(h, data, keys) ==
    IF keys = {} THEN h
    ELSE LET k == CHOOSE x \in keys : TRUE
         IN  clone_data(value_clone(h, data[k]), data, keys \ {k})

\* drop of a Value, and of every Value of a container's data
RECURSIVE value_drop(_, _)
RECURSIVE drop_data(_, _, _)
value_drop(h, val) ==
    IF ~IsArc(val) THEN h
    ELSE IF h[val.arc].strong > 1 THEN [h EXCEPT ![val.arc].strong = @ - 1]
    ELSE LET data == h[val.arc].data
             freed == [id \in DOMAIN h \ {val.arc} |-> h[id]]
         IN  drop_data(freed, data, DOMAIN data)
drop_data(h, data, keys) ==
    IF keys = {} THEN h
    ELSE LET k == CHOOSE x \in keys : TRUE
         IN  drop_data(value_drop(h, data[k]), data, keys \ {k})

\* Arc::make_mut: the allocation to write to, and the heap it leaves
make_mut_in_place(h, arc) == [heap |-> h, arc |-> arc]
make_mut_clone(h, arc, cloned, new) ==
    [heap |-> [id \in DOMAIN h \cup {new} |->
                 IF id = new THEN [strong |-> 1, data |-> h[arc].data]
                 ELSE IF id = arc THEN [cloned[id] EXCEPT !.strong = @ - 1]
                 ELSE cloned[id]],
     arc |-> new]
make_mut(h, arc) ==
    IF h[arc].strong = 1 THEN [heap |-> h, arc |-> arc]
    ELSE make_mut_clone(h, arc, clone_data(h, h[arc].data, DOMAIN h[arc].data), fresh(h))

\* a Value of a change, once cloned into the document and the change dropped
alloc_arc(h, tag, new) ==
    [heap |-> [id \in DOMAIN h \cup {new} |->
                 IF id = new THEN [strong |-> 1, data |-> <<>>] ELSE h[id]],
     val |-> [tag |-> tag, arc |-> new]]
alloc(h, value) ==
    IF value.tag \in {"Array", "Map"}
    THEN alloc_arc(h, value.tag, fresh(h))
    ELSE [heap |-> h, val |-> value]

\* the key of a container's data that a path element names
Slot(elem) == IF elem.kind = "Field" THEN elem.name ELSE elem.index + 1

\* the content of a Value in memory
RECURSIVE Content(_, _)
Content(h, val) ==
    IF val.tag = "Array"
    THEN Array([n \in DOMAIN h[val.arc].data |-> Content(h, h[val.arc].data[n])])
    ELSE IF val.tag = "Map"
    THEN Map([k \in DOMAIN h[val.arc].data |-> Content(h, h[val.arc].data[k])])
    ELSE val

\* the Value in memory that a path which resolves leads to
RECURSIVE place(_, _, _)
place(h, val, path) ==
    IF path = <<>> THEN val
    ELSE place(h, h[val.arc].data[Slot(Head(path))], Tail(path))

\* the Value at a path overwritten in place, the old one neither cloned
\* nor dropped
RECURSIVE store(_, _, _, _)
store_slot(r, val, slot) ==
    [heap |-> [r.heap EXCEPT ![val.arc].data[slot] = r.val], val |-> val]
store(h, val, path, new) ==
    IF path = <<>> THEN [heap |-> h, val |-> new]
    ELSE store_slot(store(h, h[val.arc].data[Slot(Head(path))], Tail(path), new),
                    val, Slot(Head(path)))

\* Value::get on the Value `self` in memory: the Value the path leads to
RECURSIVE get_arc_skipping(_, _, _)
get_arc_skipping(h, self, path) ==
    IF path = <<>> THEN [some |-> TRUE, val |-> self]
    ELSE IF \/ Head(path).kind = "Field" /\ self.tag = "Map"
            \/ Head(path).kind = "Index" /\ self.tag = "Array"
    THEN IF Slot(Head(path)) \in DOMAIN h[self.arc].data
         THEN get_arc_skipping(h, h[self.arc].data[Slot(Head(path))], Tail(path))
         ELSE [some |-> FALSE]
    ELSE get_arc_skipping(h, self, Tail(path))
RECURSIVE get_arc(_, _, _)
get_arc(h, self, path) ==
    IF path = <<>> THEN [some |-> TRUE, val |-> self]
    ELSE IF \/ Head(path).kind = "Field" /\ self.tag = "Map"
            \/ Head(path).kind = "Index" /\ self.tag = "Array"
    THEN IF Slot(Head(path)) \in DOMAIN h[self.arc].data
         THEN get_arc(h, h[self.arc].data[Slot(Head(path))], Tail(path))
         ELSE [some |-> FALSE]
    ELSE [some |-> FALSE]

\* Value::get_mut on the Value `self` in memory: whether the path resolves,
\* the heap the calls of Arc::make_mut leave, and self as it then is
RECURSIVE get_mut_arc(_, _, _)
get_mut_next(r, m, self, slot) ==
    [heap |-> [r.heap EXCEPT ![m.arc].data[slot] = r.val],
     val |-> [self EXCEPT !.arc = m.arc], some |-> r.some]
get_mut_step(m, self, slot, next) ==
    IF slot \in DOMAIN m.heap[m.arc].data
    THEN get_mut_next(get_mut_arc(m.heap, m.heap[m.arc].data[slot], next), m, self, slot)
    ELSE [heap |-> m.heap, val |-> [self EXCEPT !.arc = m.arc], some |-> FALSE]
get_mut_arc(h, self, path) ==
    IF path = <<>> THEN [heap |-> h, val |-> self, some |-> TRUE]
    ELSE IF \/ Head(path).kind = "Field" /\ self.tag = "Map"
            \/ Head(path).kind = "Index" /\ self.tag = "Array"
    THEN get_mut_step(make_mut(h, self.arc), self, Slot(Head(path)), Tail(path))
    ELSE [heap |-> h, val |-> self, some |-> FALSE]

\* Arc::make_mut on the container that the path leads to
make_mut_stored(s, m) == [heap |-> s.heap, val |-> s.val, arc |-> m.arc]
make_mut_store(m, self, path, old) ==
    make_mut_stored(store(m.heap, self, path, [old EXCEPT !.arc = m.arc]), m)
make_mut_at(h, self, path) ==
    make_mut_store(make_mut(h, place(h, self, path).arc), self, path,
                   place(h, self, path))

Left(g) == [heap |-> g.heap, val |-> g.val]

(***************************************************************************)
(* apply/simple.rs on a Value in memory: the heap the call leaves, and the *)
(* Value `this` as it then is.                                             *)
(***************************************************************************)
replace_drop(s, val) == [heap |-> value_drop(s.heap, val), val |-> s.val]
replace_write(n, this, path, val) ==
    replace_drop(store(n.heap, this, path, n.val), val)
replace_at(g, path, old, new) ==
    IF g.some /\ replace_precondition(old, Content(g.heap, place(g.heap, g.val, path)))
    \* *val = new
    THEN replace_write(alloc(g.heap, new), g.val, path, place(g.heap, g.val, path))
    ELSE Left(g)
apply_replace_arc(h, this, path, old, new) ==
    replace_at(get_mut_arc(h, this, path), path, old, new)

insert_entry_vacant(n, m, name) ==
    [heap |-> [n.heap EXCEPT ![m.arc].data = map_insert(@, name, n.val)],
     val |-> m.val]
insert_entry(m, name, value) ==
    IF name \in DOMAIN m.heap[m.arc].data THEN Left(m)
    ELSE insert_entry_vacant(alloc(m.heap, value), m, name)
insert_element(n, m, index) ==
    [heap |-> [n.heap EXCEPT ![m.arc].data = vec_insert(@, index, n.val)],
     val |-> m.val]
insert_into(g, parent, path, value) ==
    IF parent.tag = "Map" /\ Last(path).kind = "Field"
    \* Arc::make_mut(map).entry(name)
    THEN insert_entry(make_mut_at(g.heap, g.val, Parent(path)), Last(path).name, value)
    ELSE IF parent.tag = "Array" /\ Last(path).kind = "Index"
    THEN IF Last(path).index > Len(g.heap[parent.arc].data) THEN Left(g)
         \* Arc::make_mut(vec).insert(index, value)
         ELSE insert_element(alloc(make_mut_at(g.heap, g.val, Parent(path)).heap, value),
                             make_mut_at(g.heap, g.val, Parent(path)),
                             Last(path).index)
    ELSE Left(g)
insert_at(g, path, value) ==
    IF g.some THEN insert_into(g, place(g.heap, g.val, Parent(path)), path, value)
    ELSE Left(g)
apply_insert_arc(h, this, path, value) ==
    IF path = <<>> THEN [heap |-> h, val |-> this]
    ELSE insert_at(get_mut_arc(h, this, Parent(path)), path, value)

delete_entry(m, name, old) ==
    IF /\ name \in DOMAIN m.heap[m.arc].data
       /\ ValueEq(old, Content(m.heap, m.heap[m.arc].data[name]))
    THEN [heap |-> value_drop([m.heap EXCEPT ![m.arc].data = map_remove(@, name)],
                              m.heap[m.arc].data[name]),
          val |-> m.val]
    ELSE Left(m)
delete_element(m, index) ==
    [heap |-> value_drop([m.heap EXCEPT ![m.arc].data = vec_remove(@, index)],
                         m.heap[m.arc].data[index + 1]),
     val |-> m.val]
delete_from(g, parent, path, old) ==
    IF parent.tag = "Map" /\ Last(path).kind = "Field"
    \* Arc::make_mut(map).entry(name)
    THEN delete_entry(make_mut_at(g.heap, g.val, Parent(path)), Last(path).name, old)
    ELSE IF parent.tag = "Array" /\ Last(path).kind = "Index"
    THEN IF Last(path).index >= Len(g.heap[parent.arc].data) THEN Left(g)
         ELSE IF ValueEq(Content(g.heap, g.heap[parent.arc].data[Last(path).index + 1]),
                         old)
         \* Arc::make_mut(vec).remove(index)
         THEN delete_element(make_mut_at(g.heap, g.val, Parent(path)), Last(path).index)
         ELSE Left(g)
    ELSE Left(g)
delete_at(g, path, old) ==
    IF g.some THEN delete_from(g, place(g.heap, g.val, Parent(path)), path, old)
    ELSE Left(g)
apply_delete_arc(h, this, path, old) ==
    IF path = <<>> THEN [heap |-> h, val |-> this]
    ELSE delete_at(get_mut_arc(h, this, Parent(path)), path, old)

apply_arc(h, this, change) ==
    IF change.kind = "Insert"
    THEN apply_insert_arc(h, this, change.path, change.value)
    ELSE IF change.kind = "Replace"
    THEN apply_replace_arc(h, this, change.path, change.old, change.new)
    ELSE apply_delete_arc(h, this, change.path, change.old)

(***************************************************************************)
(* The address of an allocation is not observable: allocations are named   *)
(* by the order in which v and then w reach them.                          *)
(***************************************************************************)
RECURSIVE reach_order(_, _, _)
RECURSIVE reach_order_data(_, _, _, _, _)
reach_order(h, val, seen) ==
    IF ~IsArc(val) THEN seen
    ELSE IF \E n \in DOMAIN seen : seen[n] = val.arc THEN seen
    ELSE reach_order_data(h, val.tag, h[val.arc].data, DOMAIN h[val.arc].data,
                          Append(seen, val.arc))
reach_order_data(h, tag, data, keys, seen) ==
    IF keys = {} THEN seen
    ELSE LET k == IF tag = "Array"
                  THEN CHOOSE x \in keys : \A y \in keys : x <= y
                  ELSE CHOOSE x \in keys : TRUE
         IN  reach_order_data(h, tag, data, keys \ {k}, reach_order(h, data[k], seen))

renamed_arc(order, id) == CHOOSE n \in DOMAIN order : order[n] = id
renamed_value(order, val) ==
    IF IsArc(val) THEN [val EXCEPT !.arc = renamed_arc(order, @)] ELSE val
renamed_in(h, rts, order) ==
    [heap |-> [n \in DOMAIN order |->
                 [strong |-> h[order[n]].strong,
                  data |-> [k \in DOMAIN h[order[n]].data |->
                              renamed_value(order, h[order[n]].data[k])]]],
     roots |-> [r \in DOMAIN rts |-> renamed_value(order, rts[r])]]
renamed(h, rts) ==
    renamed_in(h, rts,
               IF "w" \in DOMAIN rts
               THEN reach_order(h, rts.w, reach_order(h, rts.v, <<>>))
               ELSE reach_order(h, rts.v, <<>>))

(***************************************************************************)
(* The caller's Values v and w, where w is a clone of v: get_mut and       *)
(* simple::apply on either, and the drop of w.                             *)
(***************************************************************************)
CowPaths ==
    {<<>>, <<Field("a")>>, <<Field("a"), Index(0)>>,
     <<Field("a"), Index(0), Index(0)>>, <<Field("a"), Index(1)>>,
     <<Field("b")>>}
CowValues == {Float("+0.0"), Float("-0.0"), Array(<<>>), Map(<<>>)}
CowChanges ==
    {Insert(p, v) : p \in CowPaths, v \in CowValues}
    \cup {Replace(p, o, n) : p \in CowPaths, o \in CowValues, n \in CowValues}
    \cup {Delete(p, o) : p \in CowPaths, o \in CowValues}

\* what a call on the Value r leaves in memory
Written(r, a) == renamed(a.heap, [roots EXCEPT ![r] = a.val])
Left_in_memory(m) == heap' = m.heap /\ roots' = m.roots

\* w = v.clone()
CowClone ==
    /\ mode = "cow"
    /\ pc = "idle"
    /\ DOMAIN roots = {"v"}
    /\ Left_in_memory(renamed(value_clone(heap, roots.v), [r \in {"v", "w"} |-> roots.v]))
    /\ expect' = [r \in {"v", "w"} |-> expect.v]
    /\ UNCHANGED <<mode, pc, doc, call, chain, tree, mutex, tasks, db, trans>>

\* drop(w)
CowDrop ==
    /\ mode = "cow"
    /\ pc = "idle"
    /\ DOMAIN roots = {"v", "w"}
    /\ Left_in_memory(renamed(value_drop(heap, roots.w), [r \in {"v"} |-> roots.v]))
    /\ expect' = [r \in {"v"} |-> expect.v]
    /\ UNCHANGED <<mode, pc, doc, call, chain, tree, mutex, tasks, db, trans>>

\* what the caller reads through the reference a call returned
Referenced(h, found) == IF found.some THEN Some(Content(h, found.val)) ELSE None
Found_mut(g, path) ==
    IF g.some THEN [some |-> TRUE, val |-> place(g.heap, g.val, path)]
    ELSE [some |-> FALSE]
Called(op, r, path, res) == [change |-> <<>>, op |-> op, root |-> r, path |-> path, res |-> res]

\* r.get(path)
CowGet(r, path) ==
    /\ mode = "cow"
    /\ pc = "idle"
    /\ r \in DOMAIN roots
    /\ pc' = "returned"
    /\ call' = Called("get", r, path, Referenced(heap, get_arc(heap, roots[r], path)))
    /\ UNCHANGED <<mode, doc, chain, tree, heap, roots, expect, mutex, tasks, db, trans>>

\* r.get_mut(path), the reference not written through
Got_mut(r, path, g) ==
    /\ Left_in_memory(Written(r, g))
    /\ call' = Called("get_mut", r, path, Referenced(g.heap, Found_mut(g, path)))
CowGetMut(r, path) ==
    /\ mode = "cow"
    /\ pc = "idle"
    /\ r \in DOMAIN roots
    /\ pc' = "returned"
    /\ Got_mut(r, path, get_mut_arc(heap, roots[r], path))
    /\ UNCHANGED <<mode, doc, chain, tree, expect, mutex, tasks, db, trans>>

\* the reference goes out of scope
CowReturn ==
    /\ mode = "cow"
    /\ pc = "returned"
    /\ pc' = "idle"
    /\ call' = NoCall
    /\ UNCHANGED <<mode, doc, chain, tree, heap, roots, expect, mutex, tasks, db, trans>>

\* simple::apply(r, change)
CowApply(r, change) ==
    /\ mode = "cow"
    /\ pc = "idle"
    /\ r \in DOMAIN roots
    /\ Nodes(apply(expect[r], change).this) <= MaxNodes
    /\ Left_in_memory(Written(r, apply_arc(heap, roots[r], change)))
    /\ expect' = [expect EXCEPT ![r] = apply(@, change).this]
    /\ UNCHANGED <<mode, pc, doc, call, chain, tree, mutex, tasks, db, trans>>

InitCow ==
    /\ mode = "cow"
    /\ pc = "idle"
    /\ doc = DefaultValue
    /\ call = NoCall
    /\ chain = NoChain
    /\ tree = None
    /\ heap = [id \in {1} |-> [strong |-> 1, data |-> <<>>]]
    /\ roots = [r \in {"v"} |-> ArcMap(1)]
    /\ expect = [r \in {"v"} |-> DefaultValue]
    /\ mutex = <<>>
    /\ tasks = <<>>
    /\ db = <<>>
    /\ trans = <<>>
NextCow ==
    \/ CowClone
    \/ CowDrop
    \/ \E r \in {"v", "w"}, path \in CowPaths : CowGet(r, path)
    \/ \E r \in {"v", "w"}, path \in CowPaths : CowGetMut(r, path)
    \/ CowReturn
    \/ \E r \in {"v", "w"}, change \in CowChanges : CowApply(r, change)
SpecCow == InitCow /\ [][NextCow]_vars

(***************************************************************************)
(* async_support.rs, mod not_send: the async Mutex.  A Waker is named by   *)
(* the task it wakes.  Each task has at most one lock future and holds at  *)
(* most one guard at a time.                                               *)
(***************************************************************************)
MaxTasks == 3
MaxCounter == 3
MaxGuards == 2
Tasks == 1..MaxTasks

Mutex_new == [locked |-> FALSE, queue |-> <<>>, counter |-> 0]

RemovePanic ==
    [ok |-> FALSE,
     panic |-> "wakers are only removed on successful lock or drop"]

\* while let Some(None) = queue.front() { queue.pop_front(); }
RECURSIVE pop_front_nones(_)
pop_front_nones(queue) ==
    IF queue # <<>> /\ ~Head(queue).some THEN pop_front_nones(Tail(queue)) ELSE queue

\* the head popped, the empty slots behind it kept
remove_waker_no_compact(queue, id) ==
    IF queue # <<>> /\ Head(queue).some THEN
        IF Head(queue).value.id = id
        THEN [ok |-> TRUE, queue |-> Tail(queue)]
        ELSE IF /\ id - Head(queue).value.id + 1 \in DOMAIN queue
                /\ queue[id - Head(queue).value.id + 1].some
                /\ queue[id - Head(queue).value.id + 1].value.id = id
        THEN [ok |-> TRUE,
              queue |-> [queue EXCEPT ![id - Head(queue).value.id + 1] = None]]
        ELSE RemovePanic
    ELSE RemovePanic
remove_waker(queue, id) ==
    IF queue # <<>> /\ Head(queue).some THEN
        IF Head(queue).value.id = id
        THEN [ok |-> TRUE, queue |-> pop_front_nones(Tail(queue))]
        \* index = id.wrapping_sub(front_id)
        ELSE IF /\ id - Head(queue).value.id + 1 \in DOMAIN queue
                /\ queue[id - Head(queue).value.id + 1].some
                /\ queue[id - Head(queue).value.id + 1].value.id = id
        THEN [ok |-> TRUE,
              queue |-> [queue EXCEPT ![id - Head(queue).value.id + 1] = None]]
        ELSE RemovePanic
    ELSE RemovePanic

\* the tasks whose waker queue.front() holds
front_waker(queue) ==
    IF queue # <<>> /\ Head(queue).some THEN {Head(queue).value.waker} ELSE {}

lock_inner_queued(m, id, removed) ==
    [ok |-> removed.ok,
     mutex |-> IF removed.ok THEN [m EXCEPT !.locked = TRUE, !.queue = removed.queue]
               ELSE [m EXCEPT !.locked = TRUE],
     id |-> id, poll |-> "Ready"]
lock_inner(m, id, waker) ==
    IF ~m.locked /\ ~id.some THEN
        [ok |-> TRUE, mutex |-> [m EXCEPT !.locked = TRUE], id |-> id, poll |-> "Ready"]
    ELSE IF ~m.locked /\ id.some THEN
        lock_inner_queued(m, id, remove_waker(m.queue, id.value))
    ELSE IF ~id.some THEN
        [ok |-> TRUE,
         mutex |-> [m EXCEPT !.counter = @ + 1,
                             !.queue = Append(@, Some([id |-> m.counter, waker |-> waker]))],
         id |-> Some(m.counter), poll |-> "Pending"]
    ELSE [ok |-> TRUE, mutex |-> m, id |-> id, poll |-> "Pending"]

drop_future_removed(m, removed) ==
    [ok |-> removed.ok,
     mutex |-> IF removed.ok THEN [m EXCEPT !.queue = removed.queue] ELSE m,
     woke |-> IF removed.ok /\ ~m.locked THEN front_waker(removed.queue) ELSE {}]
drop_future_silent(m, id) ==
    [ok |-> remove_waker(m.queue, id).ok,
     mutex |-> IF remove_waker(m.queue, id).ok
               THEN [m EXCEPT !.queue = remove_waker(m.queue, id).queue] ELSE m,
     woke |-> {}]
drop_future(m, id) == drop_future_removed(m, remove_waker(m.queue, id))

\* the flag cleared, nobody woken
unlock_innner_silent(m) == [mutex |-> [m EXCEPT !.locked = FALSE], woke |-> {}]
unlock_innner(m) ==
    [mutex |-> [m EXCEPT !.locked = FALSE], woke |-> front_waker(m.queue)]

\* Mutex::try_lock and Mutex::try_lock_owned: the guard, if any, and the Mutex
try_lock(m, guard) ==
    IF m.locked THEN [mutex |-> m, res |-> None]
    ELSE [mutex |-> m, res |-> Some(guard)]

\* MutexGuard::map and MappedMutexGuard::map: `this` is forgotten, not dropped
map_dropping(m) == [mutex |-> unlock_innner(m).mutex, woke |-> unlock_innner(m).woke,
                    unlocks |-> 1, guard |-> "MappedMutexGuard"]
map(m) == [mutex |-> m, woke |-> {}, unlocks |-> 0, guard |-> "MappedMutexGuard"]

\* the guard a lock future resolves to
GuardOf(future) ==
    IF future = "MutexLockFuture" THEN "MutexGuard" ELSE "OwnedMutexGuard"

NoTask == [future |-> None, guard |-> None, woken |-> FALSE]
Woken(ts, woke) == [t \in DOMAIN ts |-> IF t \in woke THEN [ts[t] EXCEPT !.woken = TRUE]
                                        ELSE ts[t]]
GuardsAlive == {t \in DOMAIN tasks : tasks[t].guard.some}
Event(op, t, res, woke) ==
    [change |-> <<>>, op |-> op, task |-> t, before |-> mutex,
     res |-> res, poll |-> "", id |-> None, woke |-> woke]

\* mutex.lock() or mutex.lock_owned(): the future, not yet polled
MutexLock(t, future) ==
    /\ mode = "mutex" /\ pc = "idle"
    /\ ~tasks[t].future.some
    /\ tasks' = [tasks EXCEPT ![t].future =
                    Some([kind |-> future, id |-> None, fused |-> FALSE])]
    /\ call' = Event("lock", t, None, {})
    /\ UNCHANGED <<mode, pc, doc, chain, tree, heap, roots, expect, mutex, db, trans>>

\* the fields of a lock future after lock_inner has answered its poll
polled_future_unfused(future, r) ==
    IF r.poll = "Ready" THEN [future EXCEPT !.id = None]
    ELSE [future EXCEPT !.id = r.id]
polled_future(future, r) ==
    IF r.poll = "Ready" THEN [future EXCEPT !.id = None, !.fused = TRUE]
    ELSE [future EXCEPT !.id = r.id]
\* is_terminated of a lock future
is_terminated(future) == future.fused

\* Future::poll of the lock future of task t
Polled(t, future, r) ==
    /\ r.poll = "Ready" => chain.guards < MaxGuards
    /\ r.mutex.counter <= MaxCounter
    /\ pc' = IF r.ok THEN "idle" ELSE "panicked"
    /\ mutex' = r.mutex
    /\ tasks' = [tasks EXCEPT
                   ![t].woken = FALSE,
                   ![t].future = Some(polled_future(future, r)),
                   ![t].guard = IF r.poll = "Ready" THEN Some(GuardOf(future.kind))
                                ELSE @]
    /\ chain' = IF r.poll = "Ready" THEN [chain EXCEPT !.guards = @ + 1] ELSE chain
    /\ call' = [Event("poll", t, None, {}) EXCEPT !.poll = r.poll]
\* assert!(!s.fused, "fused") has failed
PolledFused(t) ==
    /\ pc' = "panicked"
    /\ call' = [Event("poll", t, None, {}) EXCEPT !.poll = "fused"]
    /\ UNCHANGED <<mutex, tasks, chain>>
MutexPoll(t) ==
    /\ mode = "mutex" /\ pc = "idle"
    /\ tasks[t].future.some
    /\ IF tasks[t].future.value.fused
       THEN PolledFused(t)
       ELSE /\ ~tasks[t].guard.some
            /\ Polled(t, tasks[t].future.value,
                      lock_inner(mutex, tasks[t].future.value.id, t))
    /\ UNCHANGED <<mode, doc, tree, heap, roots, expect, db, trans>>

\* mutex.try_lock() or mutex.try_lock_owned()
Tried(t, r) ==
    /\ r.res.some => chain.guards < MaxGuards
    /\ mutex' = r.mutex
    /\ tasks' = [tasks EXCEPT ![t].guard = r.res]
    /\ chain' = IF r.res.some THEN [chain EXCEPT !.guards = @ + 1] ELSE chain
    /\ call' = Event("try_lock", t, r.res, {})
MutexTryLock(t, guard) ==
    /\ mode = "mutex" /\ pc = "idle"
    /\ ~tasks[t].guard.some
    /\ Tried(t, try_lock(mutex, guard))
    /\ UNCHANGED <<mode, pc, doc, tree, heap, roots, expect, db, trans>>

\* MutexGuard::map(guard, f) or MappedMutexGuard::map(guard, f)
Mapped(t, r) ==
    /\ mutex' = r.mutex
    /\ tasks' = [Woken(tasks, r.woke) EXCEPT ![t].guard = Some(r.guard)]
    /\ chain' = [chain EXCEPT !.unlocks = @ + r.unlocks]
    /\ call' = Event("map", t, Some(r.guard), r.woke)
MutexMap(t) ==
    /\ mode = "mutex" /\ pc = "idle"
    /\ tasks[t].guard.some
    /\ tasks[t].guard.value \in {"MutexGuard", "MappedMutexGuard"}
    /\ Mapped(t, map(mutex))
    /\ UNCHANGED <<mode, pc, doc, tree, heap, roots, expect, db, trans>>

\* drop of the guard that task t holds
Unlocked(t, r) ==
    /\ mutex' = r.mutex
    /\ tasks' = [Woken(tasks, r.woke) EXCEPT ![t].guard = None]
    /\ chain' = [chain EXCEPT !.unlocks = @ + 1]
    /\ call' = Event("drop_guard", t, tasks[t].guard, r.woke)
MutexDropGuard(t) ==
    /\ mode = "mutex" /\ pc = "idle"
    /\ tasks[t].guard.some
    /\ Unlocked(t, unlock_innner(mutex))
    /\ UNCHANGED <<mode, pc, doc, tree, heap, roots, expect, db, trans>>

\* drop of the lock future of task t
Dropped(t, r) ==
    /\ pc' = IF r.ok THEN "idle" ELSE "panicked"
    /\ mutex' = r.mutex
    /\ tasks' = [Woken(tasks, r.woke) EXCEPT ![t].future = None, ![t].woken = FALSE]
    /\ call' = [Event("drop_future", t, None, r.woke) EXCEPT
                    !.id = tasks[t].future.value.id]
MutexDropFuture(t) ==
    /\ mode = "mutex" /\ pc = "idle"
    /\ tasks[t].future.some
    /\ Dropped(t, IF tasks[t].future.value.id.some
                  THEN drop_future(mutex, tasks[t].future.value.id.value)
                  ELSE [ok |-> TRUE, mutex |-> mutex, woke |-> {}])
    /\ UNCHANGED <<mode, doc, chain, tree, heap, roots, expect, db, trans>>

InitMutex ==
    /\ mode = "mutex"
    /\ pc = "idle"
    /\ doc = DefaultValue
    /\ call = [change |-> <<>>, op |-> "new", task |-> 0, before |-> Mutex_new,
               res |-> None, poll |-> "", id |-> None, woke |-> {}]
    /\ chain = [calls |-> 0, guards |-> 0, unlocks |-> 0]
    /\ tree = None
    /\ heap = <<>>
    /\ roots = <<>>
    /\ expect = <<>>
    /\ mutex = Mutex_new
    /\ tasks = [t \in Tasks |-> NoTask]
    /\ db = <<>>
    /\ trans = <<>>
NextMutex ==
    \/ \E t \in Tasks, future \in {"MutexLockFuture", "OwnedMutexLockFuture"} :
          MutexLock(t, future)
    \/ \E t \in Tasks : MutexPoll(t)
    \/ \E t \in Tasks, guard \in {"MutexGuard", "OwnedMutexGuard"} : MutexTryLock(t, guard)
    \/ \E t \in Tasks : MutexMap(t)
    \/ \E t \in Tasks : MutexDropGuard(t)
    \/ \E t \in Tasks : MutexDropFuture(t)
SpecMutex == InitMutex /\ [][NextMutex]_vars

(***************************************************************************)
(* The Mutex under fair scheduling.  The operations are the same; no count *)
(* is kept of the guards handed out, so that callers can go on locking for *)
(* ever, and a completed lock future is not polled again.  Every guard is  *)
(* eventually dropped and every woken lock future is eventually polled:    *)
(* the poll is strongly fair, since a task that holds a guard of try_lock  *)
(* polls its woken future only after it has dropped the guard.             *)
(***************************************************************************)
FairPolled(t, future, r) ==
    /\ r.ok
    /\ r.mutex.counter <= MaxCounter
    /\ mutex' = r.mutex
    /\ tasks' = [tasks EXCEPT
                   ![t].woken = FALSE,
                   ![t].future = Some(polled_future(future, r)),
                   ![t].guard = IF r.poll = "Ready" THEN Some(GuardOf(future.kind))
                                ELSE @]
    /\ call' = [Event("poll", t, None, {}) EXCEPT !.poll = r.poll]
FairPoll(t) ==
    /\ mode = "mutex" /\ pc = "idle"
    /\ tasks[t].future.some
    /\ ~tasks[t].future.value.fused
    /\ ~tasks[t].guard.some
    /\ FairPolled(t, tasks[t].future.value,
                  lock_inner(mutex, tasks[t].future.value.id, t))
    /\ UNCHANGED <<mode, pc, doc, chain, tree, heap, roots, expect, db, trans>>
FairPollWoken(t) == tasks[t].woken /\ FairPoll(t)
FairTried(t, r) ==
    /\ mutex' = r.mutex
    /\ tasks' = [tasks EXCEPT ![t].guard = r.res]
    /\ call' = Event("try_lock", t, r.res, {})
FairTryLock(t, guard) ==
    /\ mode = "mutex" /\ pc = "idle"
    /\ ~tasks[t].guard.some
    /\ FairTried(t, try_lock(mutex, guard))
    /\ UNCHANGED <<mode, pc, doc, chain, tree, heap, roots, expect, db, trans>>
FairUnlocked(t, r) ==
    /\ mutex' = r.mutex
    /\ tasks' = [Woken(tasks, r.woke) EXCEPT ![t].guard = None]
    /\ call' = Event("drop_guard", t, tasks[t].guard, r.woke)
FairDropGuard(t) ==
    /\ mode = "mutex" /\ pc = "idle"
    /\ tasks[t].guard.some
    /\ FairUnlocked(t, unlock_innner(mutex))
    /\ UNCHANGED <<mode, pc, doc, chain, tree, heap, roots, expect, db, trans>>

NextMutexFair ==
    \/ \E t \in Tasks, future \in {"MutexLockFuture", "OwnedMutexLockFuture"} :
          MutexLock(t, future)
    \/ \E t \in Tasks : FairPoll(t)
    \/ \E t \in Tasks, guard \in {"MutexGuard", "OwnedMutexGuard"} : FairTryLock(t, guard)
    \/ \E t \in Tasks : MutexMap(t)
    \/ \E t \in Tasks : FairDropGuard(t)
    \/ \E t \in Tasks : MutexDropFuture(t)
Fairness ==
    \A t \in Tasks : WF_vars(FairDropGuard(t)) /\ SF_vars(FairPollWoken(t))
SpecMutexFair == InitMutex /\ [][NextMutexFair]_vars /\ Fairness

(***************************************************************************)
(* The Storage port as SqliteStorage implements it (storage/sqlite.rs).    *)
(* db is what a connection of the pool reads: the committed rows.  An      *)
(* add_change future works on a Transaction; what it has written lies in   *)
(* its view until the Transaction is committed or dropped.  The schema is  *)
(* not part of the sources: changes(id, hash, content) with hash unique    *)
(* and change_rels(parent, child) are as the specification describes them. *)
(***************************************************************************)
MaxHash == 3
MaxCallers == 2
MaxParents == 2
Hashes == 1..MaxHash
Contents == {"c1", "c2"}
Callers == 1..MaxCallers

Row(id, hash, content) == [id |-> id, hash |-> hash, content |-> content]
Rel(parent, child) == [parent |-> parent, child |-> child]
Database(changes, change_rels) == [changes |-> changes, change_rels |-> change_rels]

\* SELECT id FROM changes WHERE hash==?
select_id(d, hash) ==
    IF \E row \in d.changes : row.hash = hash
    THEN Some((CHOOSE row \in d.changes : row.hash = hash).id)
    ELSE None

\* the constraint of the schema that a second row with the hash would break
hash_unique(d, hash) == \E row \in d.changes : row.hash = hash

\* the id a new row of changes gets
next_id(d) ==
    IF d.changes = {} THEN 1
    ELSE (CHOOSE row \in d.changes : \A other \in d.changes : other.id <= row.id).id + 1

\* INSERT OR IGNORE INTO changes (hash, content) VALUES (?, ?) RETURNING id
insert_always(d, hash, content) ==
    [db |-> [d EXCEPT !.changes = @ \cup {Row(next_id(d), hash, content)}],
     returning |-> Some(next_id(d))]
insert_or_ignore(d, hash, content) ==
    IF hash_unique(d, hash)
    THEN [db |-> d, returning |-> None]
    ELSE [db |-> [d EXCEPT !.changes = @ \cup {Row(next_id(d), hash, content)}],
          returning |-> Some(next_id(d))]

\* INSERT INTO change_rels (parent,child) VALUES (?,?)
insert_rel(d, parent, child) ==
    [d EXCEPT !.change_rels = @ \cup {Rel(parent, child)}]

\* the Transaction goes out of scope without commit: its writes are undone
rollback_keeping(d, view) == view
rollback(d, view) == d

\* get_change_id: Ok(Option<ChangeId>)
get_change_id(d, hash) == select_id(d, hash)

\* get_change_rels: the parents of id, ORDER BY changes.hash ASC
first_by_hash(rows) == CHOOSE row \in rows : \A other \in rows : row.hash <= other.hash
RECURSIVE by_hash(_)
by_hash(rows) ==
    IF rows = {} THEN <<>>
    ELSE <<first_by_hash(rows).id>> \o by_hash(rows \ {first_by_hash(rows)})
get_change_rels(d, id) ==
    by_hash({row \in d.changes : Rel(row.id, id) \in d.change_rels})

\* get_change_content: fetch_one, an error if no row has the id
get_change_content(d, id) ==
    IF \E row \in d.changes : row.id = id
    THEN [ok |-> TRUE, content |-> (CHOOSE row \in d.changes : row.id = id).content]
    ELSE [ok |-> FALSE, content |-> ""]

\* an add_change future of a caller, and no future
NoTrans ==
    [at |-> "none", hash |-> 0, content |-> "", parents |-> <<>>, next |-> 0,
     id |-> 0, writes |-> FALSE, view |-> Database({}, {})]
WriteLocked(c) == \E other \in Callers \ {c} : trans[other].writes

\* what a finished add_change leaves for the claims to speak of
Finished(op, c, t, view, err, id) ==
    [change |-> <<>>, op |-> op, caller |-> c, hash |-> t.hash, content |-> t.content,
     parents |-> t.parents, before |-> db, view |-> view, ok |-> err = "",
     err |-> err, id |-> id]
\* return of add_change: the Transaction is dropped on the way out
AddChangeReturn(c, t, view, err, id) ==
    /\ db' = rollback(db, view)
    /\ trans' = [trans EXCEPT ![c] = NoTrans]
    /\ call' = Finished("add_change", c, t, view, err, id)
    /\ pc' = "returned"

\* storage.add_change(hash, content, parents): the future, not yet polled
StorageAddChange(c, hash, content, parents) ==
    /\ mode = "store" /\ pc = "idle"
    /\ trans[c].at = "none"
    /\ trans' = [trans EXCEPT ![c] = [NoTrans EXCEPT !.at = "begin", !.hash = hash,
                                        !.content = content, !.parents = parents]]
    /\ UNCHANGED <<mode, pc, doc, call, chain, tree, heap, roots, expect, mutex, tasks, db>>

\* self.inner.begin().await?
AddChangeBegin(c) ==
    /\ mode = "store" /\ pc = "idle"
    /\ trans[c].at = "begin"
    /\ trans' = [trans EXCEPT ![c].at = "insert", ![c].view = db]
    /\ UNCHANGED <<mode, pc, doc, call, chain, tree, heap, roots, expect, mutex, tasks, db>>

\* the INSERT OR IGNORE ... RETURNING id has answered
AddChangeInserted(c, t, r) ==
    IF r.returning.some /\ t.parents = <<>>
    THEN AddChangeReturn(c, t, r.db, "", r.returning.value)
    ELSE /\ trans' = [trans EXCEPT ![c] =
                        [t EXCEPT !.view = r.db, !.writes = TRUE,
                                  !.at = IF r.returning.some THEN "parent" ELSE "existing",
                                  !.id = IF r.returning.some THEN r.returning.value ELSE 0,
                                  !.next = 1]]
         /\ UNCHANGED <<db, call, pc>>
AddChangeInsert(c) ==
    /\ mode = "store" /\ pc = "idle"
    /\ trans[c].at = "insert"
    /\ IF WriteLocked(c)
       THEN AddChangeReturn(c, trans[c], trans[c].view, "Busy", 0)
       ELSE AddChangeInserted(c, trans[c], insert_or_ignore(trans[c].view, trans[c].hash,
                                                    trans[c].content))
    /\ UNCHANGED <<mode, doc, chain, tree, heap, roots, expect, mutex, tasks>>

\* SELECT id FROM changes WHERE hash==? for the next parent, fetch_one
AddChangeSelectedParent(c, t, parent) ==
    IF parent.some
    THEN /\ trans' = [trans EXCEPT ![c] = [t EXCEPT !.at = "rel"]]
         /\ UNCHANGED <<db, call, pc>>
    ELSE AddChangeReturn(c, t, t.view, "RowNotFound", 0)
AddChangeSelectParent(c) ==
    /\ mode = "store" /\ pc = "idle"
    /\ trans[c].at = "parent"
    /\ AddChangeSelectedParent(c, trans[c], select_id(trans[c].view, trans[c].parents[trans[c].next]))
    /\ UNCHANGED <<mode, doc, chain, tree, heap, roots, expect, mutex, tasks>>

\* INSERT INTO change_rels (parent,child) VALUES (?,?), then the next
\* parent, or Ok(ChangeId(id)) after the last
AddChangeInsertedRel(c, t, view) ==
    IF t.next = Len(t.parents)
    THEN AddChangeReturn(c, t, view, "", t.id)
    ELSE /\ trans' = [trans EXCEPT ![c] =
                        [t EXCEPT !.view = view, !.at = "parent", !.next = @ + 1]]
         /\ UNCHANGED <<db, call, pc>>
AddChangeInsertRel(c) ==
    /\ mode = "store" /\ pc = "idle"
    /\ trans[c].at = "rel"
    /\ AddChangeInsertedRel(c, trans[c],
                   insert_rel(trans[c].view,
                              select_id(trans[c].view, trans[c].parents[trans[c].next]).value,
                              trans[c].id))
    /\ UNCHANGED <<mode, doc, chain, tree, heap, roots, expect, mutex, tasks>>

\* the hash was there: SELECT id FROM changes WHERE hash==?, fetch_one
AddChangeSelectExisting(c) ==
    /\ mode = "store" /\ pc = "idle"
    /\ trans[c].at = "existing"
    /\ AddChangeReturn(c, trans[c], trans[c].view,
              IF select_id(trans[c].view, trans[c].hash).some THEN "" ELSE "RowNotFound",
              IF select_id(trans[c].view, trans[c].hash).some
              THEN select_id(trans[c].view, trans[c].hash).value ELSE 0)
    /\ UNCHANGED <<mode, doc, chain, tree, heap, roots, expect, mutex, tasks>>

\* the add_change future is dropped at one of its awaits
AddChangeCancel(c) ==
    /\ mode = "store" /\ pc = "idle"
    /\ trans[c].at # "none"
    /\ db' = IF trans[c].at = "begin" THEN db ELSE rollback(db, trans[c].view)
    /\ trans' = [trans EXCEPT ![c] = NoTrans]
    /\ call' = Finished("cancel", c, trans[c],
                        IF trans[c].at = "begin" THEN db ELSE trans[c].view, "Cancelled", 0)
    /\ pc' = "returned"
    /\ UNCHANGED <<mode, doc, chain, tree, heap, roots, expect, mutex, tasks>>

\* the caller has the answer
StoreReturn ==
    /\ mode = "store"
    /\ pc = "returned"
    /\ pc' = "idle"
    /\ call' = NoCall
    /\ UNCHANGED <<mode, doc, chain, tree, heap, roots, expect, mutex, tasks, db, trans>>

\* the databases a pool can be opened on: an empty one, and some with rows
StoreDatabases ==
    { Database({}, {}),
      Database({Row(1, 1, "c1")}, {}),
      Database({Row(1, 2, "c1"), Row(2, 1, "c2")}, {Rel(1, 2)}),
      Database({Row(1, 3, "c1"), Row(2, 1, "c2"), Row(3, 2, "c1")},
               {Rel(1, 3), Rel(2, 3)}) }
StoreParents ==
    {parents \in UNION {[1..n -> Hashes] : n \in 0..MaxParents} :
        \A i, j \in DOMAIN parents : i # j => parents[i] # parents[j]}

InitStore ==
    /\ mode = "store"
    /\ pc = "idle"
    /\ doc = DefaultValue
    /\ db \in StoreDatabases
    /\ call = NoCall
    /\ chain = NoChain
    /\ tree = None
    /\ heap = <<>>
    /\ roots = <<>>
    /\ expect = <<>>
    /\ mutex = <<>>
    /\ tasks = <<>>
    /\ trans = [c \in Callers |-> NoTrans]
NextStore ==
    \/ \E c \in Callers, hash \in Hashes, content \in Contents, parents \in StoreParents :
          StorageAddChange(c, hash, content, parents)
    \/ \E c \in Callers : AddChangeBegin(c)
    \/ \E c \in Callers : AddChangeInsert(c)
    \/ \E c \in Callers : AddChangeSelectParent(c)
    \/ \E c \in Callers : AddChangeInsertRel(c)
    \/ \E c \in Callers : AddChangeSelectExisting(c)
    \/ \E c \in Callers : AddChangeCancel(c)
    \/ StoreReturn
SpecStore == InitStore /\ [][NextStore]_vars

(***************************************************************************)
(* Parents (types/change.rs): one hash, or two hashes the smaller first,   *)
(* and its serde encoding as a sequence of hashes.  A Hash is a byte array *)
(* of fixed length, compared as arrays are: byte by byte.                  *)
(***************************************************************************)
HashLen == 2
MaxSeq == 3
Bytes == {0, 1, 255}
ByteHashes == [1..HashLen -> Bytes]

\* Ord::cmp of two byte arrays
RECURSIVE cmp(_, _)
cmp(a, b) ==
    IF a = <<>> /\ b = <<>> THEN "Equal"
    ELSE IF a = <<>> THEN "Less"
    ELSE IF b = <<>> THEN "Greater"
    ELSE IF Head(a) < Head(b) THEN "Less"
    ELSE IF Head(a) > Head(b) THEN "Greater"
    ELSE cmp(Tail(a), Tail(b))

One(p) == [variant |-> "One", p1 |-> p, p2 |-> <<>>]
Two(p1, p2) == [variant |-> "Two", p1 |-> p1, p2 |-> p2]
NoParents == [variant |-> "", p1 |-> <<>>, p2 |-> <<>>]
ParentsOk(parents) == [ok |-> TRUE, error |-> "", value |-> parents]
ParentsErr(error) == [ok |-> FALSE, error |-> error, value |-> NoParents]

Parents_one(p) == ParentsOk(One(p))
Parents_two_unordered(p1, p2) ==
    IF cmp(p1, p2) = "Equal" THEN ParentsErr("ParentHashSame") ELSE ParentsOk(Two(p1, p2))
Parents_two(p1, p2) ==
    IF cmp(p1, p2) = "Less" THEN ParentsOk(Two(p1, p2))
    ELSE IF cmp(p1, p2) = "Equal" THEN ParentsErr("ParentHashSame")
    ELSE ParentsOk(Two(p2, p1))

\* Serialize for Parents: a sequence of one or of two elements
Parents_serialize(parents) ==
    IF parents.variant = "One" THEN <<parents.p1>> ELSE <<parents.p1, parents.p2>>

\* seq.next_element::<Hash>() fails on an element that is no Hash
IsHash(element) == element \in ByteHashes
visit_seq_any_order(seq) ==
    IF Len(seq) = 0 THEN ParentsErr("invalid length")
    ELSE IF ~IsHash(seq[1]) THEN ParentsErr("invalid element")
    ELSE IF Len(seq) = 1 THEN ParentsOk(One(seq[1]))
    ELSE IF ~IsHash(seq[2]) THEN ParentsErr("invalid element")
    ELSE IF Len(seq) > 2 THEN ParentsErr("invalid length")
    ELSE ParentsOk(Two(seq[1], seq[2]))
visit_seq(seq) ==
    IF Len(seq) = 0 THEN ParentsErr("invalid length")
    ELSE IF ~IsHash(seq[1]) THEN ParentsErr("invalid element")
    ELSE IF Len(seq) = 1 THEN ParentsOk(One(seq[1]))
    ELSE IF ~IsHash(seq[2]) THEN ParentsErr("invalid element")
    ELSE IF Len(seq) > 2
         THEN IF ~IsHash(seq[3]) THEN ParentsErr("invalid element")
              ELSE ParentsErr("invalid length")
    ELSE IF cmp(seq[1], seq[2]) = "Less" THEN ParentsOk(Two(seq[1], seq[2]))
    ELSE ParentsErr("parents not ordered")

\* what the calls leave for the claims to speak of
ParentsCall(op, p1, p2, seq, res, encoded) ==
    /\ pc' = "returned"
    /\ call' = [change |-> <<>>, op |-> op, p1 |-> p1, p2 |-> p2, seq |-> seq,
                res |-> res, encoded |-> encoded]
    /\ UNCHANGED <<mode, doc, chain, tree, heap, roots, expect, mutex, tasks, db, trans>>

ParentsOne(p) ==
    /\ mode = "parents" /\ pc = "idle"
    /\ ParentsCall("one", p, <<>>, <<>>, Parents_one(p), <<>>)
ParentsTwo(p1, p2) ==
    /\ mode = "parents" /\ pc = "idle"
    /\ ParentsCall("two", p1, p2, <<>>, Parents_two(p1, p2), <<>>)
\* Parents::one(p1) or Parents::two(p1, p2), serialized
ParentsSerialize(res, p1, p2) ==
    /\ mode = "parents" /\ pc = "idle"
    /\ res.ok
    /\ ParentsCall("serialize", p1, p2, <<>>, res, Parents_serialize(res.value))
ParentsDeserialize(seq) ==
    /\ mode = "parents" /\ pc = "idle"
    /\ ParentsCall("deserialize", <<>>, <<>>, seq, visit_seq(seq), seq)
ParentsReturn ==
    /\ mode = "parents"
    /\ pc = "returned"
    /\ pc' = "idle"
    /\ call' = NoCall
    /\ UNCHANGED <<mode, doc, chain, tree, heap, roots, expect, mutex, tasks, db, trans>>

\* what a decoder may find in the sequence: hashes, and an array too short
Elements == ByteHashes \cup {<<0>>}
ElementSeqs == UNION {[1..n -> Elements] : n \in 0..MaxSeq}

InitParents == mode = "parents" /\ InitIdle
NextParents ==
    \/ \E p \in ByteHashes : ParentsOne(p)
    \/ \E p1, p2 \in ByteHashes : ParentsTwo(p1, p2)
    \/ \E p \in ByteHashes : ParentsSerialize(Parents_one(p), p, <<>>)
    \/ \E p1, p2 \in ByteHashes : ParentsSerialize(Parents_two(p1, p2), p1, p2)
    \/ \E seq \in ElementSeqs : ParentsDeserialize(seq)
    \/ ParentsReturn
SpecParents == InitParents /\ [][NextParents]_vars

(***************************************************************************)
(* Serialize and Deserialize for Value (types/value.rs 42-216), over the   *)
(* items of the binary format: an unsigned or a negative integer, a float, *)
(* a boolean, a text, a byte string, and the headers of an array and of a  *)
(* map followed by their items.  A String is a sequence of code points,    *)
(* its bytes are its UTF-8 encoding.                                       *)
(***************************************************************************)
U8_MAX == 255
MaxBytes == 4

Positive(n) == [item |-> "Positive", n |-> n]
Negative(n) == [item |-> "Negative", n |-> n]
FloatItem(f) == [item |-> "Float", f |-> f]
BoolItem(b) == [item |-> "Bool", b |-> b]
Text(s) == [item |-> "Text", s |-> s]
BytesItem(bytes) == [item |-> "Bytes", bytes |-> bytes]
ArrayHeader(len) == [item |-> "Array", len |-> len]
MapHeader(len) == [item |-> "Map", len |-> len]

\* str::as_bytes: code points below 0x80 are one byte, below 0x800 two.
\* The string is encoded by halves, which keeps the evaluation shallow.
char_bytes(char) ==
    IF char < 128 THEN <<char>> ELSE <<192 + (char \div 64), 128 + (char % 64)>>
RECURSIVE as_bytes(_)
as_bytes(s) ==
    IF s = <<>> THEN <<>>
    ELSE IF Len(s) = 1 THEN char_bytes(s[1])
    ELSE as_bytes(SubSeq(s, 1, Len(s) \div 2)) \o as_bytes(SubSeq(s, Len(s) \div 2 + 1, Len(s)))

\* std::str::from_utf8, for bytes that begin sequences of at most two
\* bytes.  The bytes are decoded by halves, cut behind a continuation byte
\* where the middle would part it from the byte before it.
Utf8Error == [ok |-> FALSE, s |-> <<>>]
IsContinuation(byte) == byte >= 128 /\ byte <= 191
IsLead(byte) == byte >= 194 /\ byte <= 223
utf8_cut(v) ==
    IF IsContinuation(v[Len(v) \div 2 + 1]) THEN Len(v) \div 2 + 1 ELSE Len(v) \div 2
utf8_join(left, right) ==
    IF left.ok /\ right.ok THEN [ok |-> TRUE, s |-> left.s \o right.s] ELSE Utf8Error
RECURSIVE from_utf8(_)
from_utf8(v) ==
    IF v = <<>> THEN [ok |-> TRUE, s |-> <<>>]
    ELSE IF Len(v) = 1
         THEN IF v[1] < 128 THEN [ok |-> TRUE, s |-> <<v[1]>>] ELSE Utf8Error
    ELSE IF Len(v) = 2
         THEN IF v[1] < 128 /\ v[2] < 128 THEN [ok |-> TRUE, s |-> v]
              ELSE IF IsLead(v[1]) /\ IsContinuation(v[2])
                   THEN [ok |-> TRUE, s |-> <<(v[1] - 192) * 64 + (v[2] - 128)>>]
              ELSE Utf8Error
    ELSE utf8_join(from_utf8(SubSeq(v, 1, utf8_cut(v))),
                   from_utf8(SubSeq(v, utf8_cut(v) + 1, Len(v))))

\* Result<Value, E> of the visitor, and of the deserializer with what is
\* left of the input
DeOk(value) == [ok |-> TRUE, value |-> value]
DeErr == [ok |-> FALSE, value |-> Bool(FALSE)]
Parsed(r, rest) == [ok |-> r.ok, value |-> r.value, rest |-> rest]

\* the Blob arm of Serialize for Value: what it appends to the output
blob_serialize_unchecked(blob, out) ==
    [ok |-> TRUE,
     out |-> out \o <<BytesItem(<<Len(as_bytes(blob.mime)) % (U8_MAX + 1)>>
                                  \o as_bytes(blob.mime) \o blob.data)>>]
blob_serialize(blob, out) ==
    IF Len(as_bytes(blob.mime)) > U8_MAX
    THEN [ok |-> FALSE, out |-> out]
    ELSE [ok |-> TRUE,
          out |-> out \o <<BytesItem(<<Len(as_bytes(blob.mime))>>
                                       \o as_bytes(blob.mime) \o blob.data)>>]

\* the order in which a HashMap hands out its keys is not fixed: forward
\* or backward through the keys of the model
KeyOrder == <<"a", "b">>
keys_forward(entries) ==
    LET Has(k) == k \in DOMAIN entries
    IN  SelectSeq(KeyOrder, Has)
keys_backward(keys) == [n \in DOMAIN keys |-> keys[Len(keys) + 1 - n]]
keys_of(entries, rev) ==
    IF rev THEN keys_backward(keys_forward(entries)) ELSE keys_forward(entries)

\* Serialize for Value
RECURSIVE Value_serialize(_, _, _)
RECURSIVE serialize_elems(_, _, _, _)
RECURSIVE serialize_entries(_, _, _, _, _)
serialize_elems(elems, n, rev, r) ==
    IF ~r.ok \/ n > Len(elems) THEN r
    ELSE serialize_elems(elems, n + 1, rev, Value_serialize(elems[n], rev, r.out))
serialize_entries(entries, keys, n, rev, r) ==
    IF ~r.ok \/ n > Len(keys) THEN r
    ELSE serialize_entries(entries, keys, n + 1, rev,
                           Value_serialize(entries[keys[n]], rev,
                                           r.out \o <<Text(keys[n])>>))
Value_serialize(self, rev, out) ==
    IF self.tag = "Integer" THEN
        [ok |-> TRUE,
         out |-> out \o <<IF self.i >= 0 THEN Positive(self.i) ELSE Negative(-1 - self.i)>>]
    ELSE IF self.tag = "Float" THEN [ok |-> TRUE, out |-> out \o <<FloatItem(self.f)>>]
    ELSE IF self.tag = "Bool" THEN [ok |-> TRUE, out |-> out \o <<BoolItem(self.b)>>]
    ELSE IF self.tag = "String" THEN [ok |-> TRUE, out |-> out \o <<Text(self.s)>>]
    ELSE IF self.tag = "Array" THEN
        serialize_elems(self.elems, 1, rev,
                        [ok |-> TRUE, out |-> out \o <<ArrayHeader(Len(self.elems))>>])
    ELSE IF self.tag = "Map" THEN
        serialize_entries(self.entries, keys_of(self.entries, rev), 1, rev,
                          [ok |-> TRUE,
                           out |-> out \o <<MapHeader(Cardinality(DOMAIN self.entries))>>])
    ELSE blob_serialize(self, out)

\* ValueVisitor
visit_bool(v) == DeOk(Bool(v))
visit_i64(v) == DeOk(Integer(v))
visit_u64(v) == IF v \in Int THEN DeOk(Integer(v)) ELSE DeErr
visit_f64(v) == DeOk(Float(v))
visit_str(v) == DeOk(String(v))
visit_string(v) == DeOk(String(v))

blob_of(mime, data) == IF mime.ok THEN DeOk(Blob(mime.s, data)) ELSE DeErr
visit_bytes(v) ==
    IF v = <<>> THEN DeErr
    ELSE IF v[1] + 1 > Len(v) THEN DeErr
    ELSE blob_of(from_utf8(SubSeq(v, 2, v[1] + 1)), SubSeq(v, v[1] + 2, Len(v)))

\* Vec::copy_within(src.., 0) and Vec::truncate
copy_within(v, src) ==
    [n \in DOMAIN v |-> IF n + src <= Len(v) THEN v[n + src] ELSE v[n]]
truncate(v, len) == SubSeq(v, 1, len)
visit_byte_buf_no_copy(v) ==
    IF v = <<>> THEN DeErr
    ELSE IF v[1] + 1 > Len(v) THEN DeErr
    ELSE blob_of(from_utf8(SubSeq(v, 2, v[1] + 1)), truncate(v, Len(v) - v[1] - 1))
visit_byte_buf(v) ==
    IF v = <<>> THEN DeErr
    ELSE IF v[1] + 1 > Len(v) THEN DeErr
    ELSE blob_of(from_utf8(SubSeq(v, 2, v[1] + 1)),
                 truncate(copy_within(v, v[1] + 1), Len(v) - v[1] - 1))

\* Deserialize for Value: deserialize_any on the next item of the input.
\* nan is the NaN the decoder makes of an encoded NaN; owned tells whether
\* the decoder hands texts and byte strings over as owned buffers.
RECURSIVE Value_deserialize(_, _, _)
RECURSIVE visit_seq_elems(_, _, _, _, _)
RECURSIVE visit_map_entries(_, _, _, _, _)
visit_seq_next(r, len, res, nan, owned) ==
    IF ~r.ok THEN Parsed(DeErr, r.rest)
    ELSE visit_seq_elems(r.rest, len - 1, Append(res, r.value), nan, owned)
visit_seq_elems(input, len, res, nan, owned) ==
    IF len = 0 THEN Parsed(DeOk(Array(res)), input)
    ELSE visit_seq_next(Value_deserialize(input, nan, owned), len, res, nan, owned)
HashMap_insert(res, key, value) ==
    [k \in DOMAIN res \cup {key} |-> IF k = key THEN value ELSE res[k]]
visit_map_next(key, r, len, res, nan, owned) ==
    IF ~r.ok THEN Parsed(DeErr, r.rest)
    ELSE visit_map_entries(r.rest, len - 1, HashMap_insert(res, key, r.value), nan, owned)
visit_map_entries(input, len, res, nan, owned) ==
    IF len = 0 THEN Parsed(DeOk(Map(res)), input)
    ELSE IF input = <<>> THEN Parsed(DeErr, input)
    ELSE IF Head(input).item # "Text" THEN Parsed(DeErr, input)
    ELSE visit_map_next(Head(input).s, Value_deserialize(Tail(input), nan, owned),
                        len, res, nan, owned)
Value_deserialize(input, nan, owned) ==
    IF input = <<>> THEN Parsed(DeErr, input)
    ELSE IF Head(input).item = "Positive" THEN Parsed(visit_u64(Head(input).n), Tail(input))
    ELSE IF Head(input).item = "Negative"
         THEN Parsed(visit_i64(-1 - Head(input).n), Tail(input))
    ELSE IF Head(input).item = "Float"
         THEN Parsed(visit_f64(IF is_nan(Head(input).f) THEN nan ELSE Head(input).f),
                     Tail(input))
    ELSE IF Head(input).item = "Bool" THEN Parsed(visit_bool(Head(input).b), Tail(input))
    ELSE IF Head(input).item = "Text"
         THEN Parsed(IF owned THEN visit_string(Head(input).s) ELSE visit_str(Head(input).s),
                     Tail(input))
    ELSE IF Head(input).item = "Bytes"
         THEN Parsed(IF owned THEN visit_byte_buf(Head(input).bytes)
                     ELSE visit_bytes(Head(input).bytes), Tail(input))
    ELSE IF Head(input).item = "Array"
         THEN visit_seq_elems(Tail(input), Head(input).len, <<>>, nan, owned)
    ELSE visit_map_entries(Tail(input), Head(input).len, <<>>, nan, owned)

\* the mime types of the model: short ones, and ones of 255 and 256 bytes
\* made of one-byte and of two-byte code points
Mimes ==
    { <<>>, <<1>>, <<233>>, <<1, 233>>,
      [n \in 1..U8_MAX |-> 1], [n \in 1..(U8_MAX + 1) |-> 1],
      [n \in 1..((U8_MAX + 1) \div 2) |-> 233],
      [n \in 1..((U8_MAX + 1) \div 2) |-> IF n = 1 THEN 1 ELSE 233] }
SerdeBytes == {0, 1, 2, 169, 195, 255}
ByteSeqs == UNION {[1..n -> SerdeBytes] : n \in 0..MaxBytes}
SerdeLeaves ==
    {Integer(i) : i \in {-2, -1, 0, 1}} \cup {Float(f) : f \in F64}
        \cup {Bool(b) : b \in BOOLEAN} \cup {String(s) : s \in {"", "a"}}
        \cup {Blob(mime, data) : mime \in Mimes, data \in {<<>>, <<0, 255>>}}
SerdeInner ==
    {Integer(-1), Float("NaN:max"), Float("-0.0"), String("a"), Blob(<<1, 233>>, <<0, 255>>),
     Blob([n \in 1..(U8_MAX + 1) |-> 1], <<>>), Array(<<>>), Map(<<>>),
     Array(<<Integer(1), Blob(<<>>, <<2>>)>>), Map("b" :> Float("NaN:max-1"))}
SerdeValues ==
    SerdeLeaves
        \cup {Array(elems) : elems \in UNION {[1..n -> SerdeInner] : n \in 0..2}}
        \cup {Map(entries) : entries \in UNION {[keys -> SerdeInner] : keys \in SUBSET Keys}}

\* value.serialize(serializer) into an empty output
ValueSerialized(value, rev, r) ==
    /\ pc' = IF r.ok THEN "serialized" ELSE "returned"
    /\ call' = [change |-> <<>>, op |-> "serialize", value |-> value, rev |-> rev,
                ser |-> r, input |-> r.out, res |-> Parsed(DeErr, <<>>), owned |-> FALSE]
    /\ UNCHANGED <<mode, doc, chain, tree, heap, roots, expect, mutex, tasks, db, trans>>
ValueSerialize(value, rev) ==
    /\ mode = "serde" /\ pc = "idle"
    /\ ValueSerialized(value, rev, Value_serialize(value, rev, <<>>))
\* Value::deserialize(deserializer) on what was serialized
ValueDeserialize(nan, owned) ==
    /\ mode = "serde" /\ pc = "serialized"
    /\ pc' = "returned"
    /\ call' = [call EXCEPT !.op = "round trip", !.owned = owned,
                            !.res = Value_deserialize(call.input, nan, owned)]
    /\ UNCHANGED <<mode, doc, chain, tree, heap, roots, expect, mutex, tasks, db, trans>>
\* Value::deserialize(deserializer) on a byte string
ValueDeserializeBytes(v, owned) ==
    /\ mode = "serde" /\ pc = "idle"
    /\ pc' = "returned"
    /\ call' = [change |-> <<>>, op |-> "deserialize", value |-> Bool(FALSE), rev |-> FALSE,
                ser |-> [ok |-> TRUE, out |-> <<>>], input |-> <<BytesItem(v)>>,
                res |-> Value_deserialize(<<BytesItem(v)>>, "NaN:max", owned),
                owned |-> owned]
    /\ UNCHANGED <<mode, doc, chain, tree, heap, roots, expect, mutex, tasks, db, trans>>
SerdeReturn ==
    /\ mode = "serde"
    /\ pc = "returned"
    /\ pc' = "idle"
    /\ call' = NoCall
    /\ UNCHANGED <<mode, doc, chain, tree, heap, roots, expect, mutex, tasks, db, trans>>

InitSerde == mode = "serde" /\ InitIdle
NextSerde ==
    \/ \E value \in SerdeValues, rev \in BOOLEAN : ValueSerialize(value, rev)
    \/ \E nan \in {f \in F64 : is_nan(f)}, owned \in BOOLEAN : ValueDeserialize(nan, owned)
    \/ \E v \in ByteSeqs, owned \in BOOLEAN : ValueDeserializeBytes(v, owned)
    \/ SerdeReturn
SpecSerde == InitSerde /\ [][NextSerde]_vars

(***************************************************************************)
(* Value equality in memory.  Arrays and maps sit behind Arcs: two Values  *)
(* may hold the same allocation (one is a clone of the other) or           *)
(* allocations of their own.  Arc<T> compares the pointers first when T is *)
(* Eq, which Vec<Value> and HashMap<String, Value> are since Value is.     *)
(***************************************************************************)
\* most Values alive at once
MaxValues == 3

\* a Value built from its content, every container in an allocation of its own
RECURSIVE build(_, _)
RECURSIVE build_elems(_, _, _, _)
RECURSIVE build_entries(_, _, _, _)
build_arc(b, tag, new) ==
    [heap |-> [id \in DOMAIN b.heap \cup {new} |->
                 IF id = new THEN [strong |-> 1, data |-> b.data] ELSE b.heap[id]],
     val |-> [tag |-> tag, arc |-> new]]
build_elem(b, elems, n, data) ==
    build_elems(b.heap, elems, n + 1, Append(data, b.val))
build_elems(h, elems, n, data) ==
    IF n > Len(elems) THEN [heap |-> h, data |-> data]
    ELSE build_elem(build(h, elems[n]), elems, n, data)
build_entry(b, entries, k, keys, data) ==
    build_entries(b.heap, entries, keys \ {k},
                  [j \in DOMAIN data \cup {k} |-> IF j = k THEN b.val ELSE data[j]])
build_entries(h, entries, keys, data) ==
    IF keys = {} THEN [heap |-> h, data |-> data]
    ELSE build_entry(build(h, entries[CHOOSE k \in keys : TRUE]), entries,
                     CHOOSE k \in keys : TRUE, keys, data)
build_fresh(b, tag) == build_arc(b, tag, fresh(b.heap))
build(h, value) ==
    IF value.tag = "Array" THEN build_fresh(build_elems(h, value.elems, 1, <<>>), "Array")
    ELSE IF value.tag = "Map"
    THEN build_fresh(build_entries(h, value.entries, DOMAIN value.entries, <<>>), "Map")
    ELSE [heap |-> h, val |-> value]

\* the Float arm of PartialEq for Value
float_eq_ieee(v1, v2) == f64_eq(v1, v2)
float_eq(v1, v2) == IF is_nan(v1) /\ is_nan(v2) THEN TRUE ELSE f64_eq(v1, v2)

\* Arc::ptr_eq
ptr_eq(v1, v2) == v1.arc = v2.arc

\* PartialEq for Value, on Values in memory
RECURSIVE eq(_, _, _)
eq(h, self, other) ==
    IF self.tag = "Integer" /\ other.tag = "Integer" THEN self.i = other.i
    ELSE IF self.tag = "Float" /\ other.tag = "Float" THEN float_eq(self.f, other.f)
    ELSE IF self.tag = "Bool" /\ other.tag = "Bool" THEN self.b = other.b
    ELSE IF self.tag = "String" /\ other.tag = "String" THEN self.s = other.s
    ELSE IF self.tag = "Array" /\ other.tag = "Array" THEN
        \/ ptr_eq(self, other)
        \/ /\ Len(h[self.arc].data) = Len(h[other.arc].data)
           /\ \A n \in DOMAIN h[self.arc].data :
                 eq(h, h[self.arc].data[n], h[other.arc].data[n])
    ELSE IF self.tag = "Map" /\ other.tag = "Map" THEN
        \/ ptr_eq(self, other)
        \/ /\ Cardinality(DOMAIN h[self.arc].data) = Cardinality(DOMAIN h[other.arc].data)
           /\ \A k \in DOMAIN h[self.arc].data :
                 /\ k \in DOMAIN h[other.arc].data
                 /\ eq(h, h[self.arc].data[k], h[other.arc].data[k])
    ELSE IF self.tag = "Blob" /\ other.tag = "Blob" THEN
        self.mime = other.mime /\ self.data = other.data
    ELSE FALSE

EqLeaves ==
    {Integer(1), Bool(TRUE), String("a"), Blob(<<1>>, <<0>>), Blob(<<1>>, <<1>>)}
        \cup {Float(f) : f \in F64}
EqValues ==
    EqLeaves
        \cup {Array(<<>>), Map(<<>>), Array(<<Integer(1)>>), Array(<<Float("1.0")>>),
              Array(<<Float("NaN:max")>>), Array(<<Float("NaN:max-1")>>),
              Map("a" :> Float("+0.0")), Map("a" :> Float("-0.0")),
              Map("a" :> Array(<<Float("NaN:max")>>)),
              Map("a" :> Array(<<Float("NaN:max-1")>>))}

\* let v = <a Value built from its content>
EqBuilt(b) ==
    /\ heap' = b.heap
    /\ roots' = Append(roots, b.val)
    /\ UNCHANGED <<mode, pc, doc, call, chain, tree, expect, mutex, tasks, db, trans>>
EqBuild(value) ==
    /\ mode = "eq" /\ pc = "idle"
    /\ Len(roots) < MaxValues
    /\ EqBuilt(build(heap, value))
\* let w = v.clone()
EqClone(n) ==
    /\ mode = "eq" /\ pc = "idle"
    /\ Len(roots) < MaxValues
    /\ n \in DOMAIN roots
    /\ heap' = value_clone(heap, roots[n])
    /\ roots' = Append(roots, roots[n])
    /\ UNCHANGED <<mode, pc, doc, call, chain, tree, expect, mutex, tasks, db, trans>>
\* drop of the Value made last
EqDrop ==
    /\ mode = "eq" /\ pc = "idle"
    /\ roots # <<>>
    /\ heap' = value_drop(heap, roots[Len(roots)])
    /\ roots' = SubSeq(roots, 1, Len(roots) - 1)
    /\ UNCHANGED <<mode, pc, doc, call, chain, tree, expect, mutex, tasks, db, trans>>
\* v == w, for every two of the Values alive
EqCompare ==
    /\ mode = "eq" /\ pc = "idle"
    /\ roots # <<>>
    /\ pc' = "returned"
    /\ call' = [change |-> <<>>, op |-> "eq",
                content |-> [n \in DOMAIN roots |-> Content(heap, roots[n])],
                shared |-> [n \in DOMAIN roots |->
                              {m \in DOMAIN roots : IsArc(roots[n]) /\ roots[m] = roots[n]}],
                eq |-> [n \in DOMAIN roots |->
                          [m \in DOMAIN roots |-> eq(heap, roots[n], roots[m])]]]
    /\ UNCHANGED <<mode, doc, chain, tree, heap, roots, expect, mutex, tasks, db, trans>>
EqReturn ==
    /\ mode = "eq" /\ pc = "returned"
    /\ pc' = "idle"
    /\ call' = NoCall
    /\ UNCHANGED <<mode, doc, chain, tree, heap, roots, expect, mutex, tasks, db, trans>>

InitEq == mode = "eq" /\ InitIdle
NextEq ==
    \/ \E value \in EqValues : EqBuild(value)
    \/ \E n \in 1..MaxValues : EqClone(n)
    \/ EqDrop
    \/ EqCompare
    \/ EqReturn
SpecEq == InitEq /\ [][NextEq]_vars

(***************************************************************************)
(* Serialize and Deserialize for PathElement.  The integers of the serde   *)
(* data model are kept at their widths: a number is a sign and a magnitude *)
(* of four 16-bit limbs, the least significant first, and a u32 is the     *)
(* two low limbs.                                                          *)
(***************************************************************************)
\* one more than the greatest 16-bit limb
Limb == 65536

Num(neg, mag) == [neg |-> neg, mag |-> mag]
Mag(n) == <<n, 0, 0, 0>>
Wide(l1, l2, l3, l4) == <<l1, l2, l3, l4>>
\* mag < 2^bits
below_pow2(mag, bits) ==
    \A n \in DOMAIN mag :
        /\ n > bits \div 16 + 1 => mag[n] = 0
        /\ n = bits \div 16 + 1 => mag[n] < 2 ^ (bits % 16)
pow2(bits) == [n \in 1..4 |-> IF n = bits \div 16 + 1 THEN 2 ^ (bits % 16) ELSE 0]
\* the values of iN and of uN
fits_signed(v, bits) ==
    IF v.neg THEN below_pow2(v.mag, bits - 1) \/ v.mag = pow2(bits - 1)
    ELSE below_pow2(v.mag, bits - 1)
fits_unsigned(v, bits) == ~v.neg /\ below_pow2(v.mag, bits)

\* the tokens a serializer is handed and a deserializer hands on
I(bits, v) == [token |-> "I", bits |-> bits, v |-> v]
U(bits, v) == [token |-> "U", bits |-> bits, v |-> v]
Str(s, owned) == [token |-> "Str", s |-> s, owned |-> owned]

\* Result<PathElement, E>
PathOk(value) == [ok |-> TRUE, value |-> value]
PathErr == [ok |-> FALSE, value |-> Field("")]

\* u32::try_from of an i64 or a u64
u32_try_from(v) ==
    IF fits_unsigned(v, 32) THEN [ok |-> TRUE, value |-> <<v.mag[1], v.mag[2]>>]
    ELSE [ok |-> FALSE, value |-> <<0, 0>>]
index_of(r) == IF r.ok THEN PathOk(Index(r.value)) ELSE PathErr

\* PathElementVisitor
path_visit_i64_unchecked(v) == PathOk(Index(<<v.mag[1], v.mag[2]>>))
path_visit_i64(v) == index_of(u32_try_from(v))
path_visit_u32(v) == PathOk(Index(<<v.mag[1], v.mag[2]>>))
path_visit_u64(v) == index_of(u32_try_from(v))
path_visit_str(v) == PathOk(Field(v))
path_visit_string(v) == PathOk(Field(v))
\* the visitor's methods that are not overridden forward to the wider ones
path_visit_i8(v) == path_visit_i64(v)
path_visit_i16(v) == path_visit_i64(v)
path_visit_i32(v) == path_visit_i64(v)
path_visit_u8(v) == path_visit_u64(v)
path_visit_u16(v) == path_visit_u64(v)

\* Deserialize for PathElement: deserialize_any calls the method of the token
PathElement_deserialize(t) ==
    IF t.token = "I" THEN
        IF t.bits = 8 THEN path_visit_i8(t.v)
        ELSE IF t.bits = 16 THEN path_visit_i16(t.v)
        ELSE IF t.bits = 32 THEN path_visit_i32(t.v)
        ELSE path_visit_i64(t.v)
    ELSE IF t.token = "U" THEN
        IF t.bits = 8 THEN path_visit_u8(t.v)
        ELSE IF t.bits = 16 THEN path_visit_u16(t.v)
        ELSE IF t.bits = 32 THEN path_visit_u32(t.v)
        ELSE path_visit_u64(t.v)
    ELSE IF t.owned THEN path_visit_string(t.s)
    ELSE path_visit_str(t.s)

\* Serialize for PathElement
PathElement_serialize(self) ==
    IF self.kind = "Field" THEN Str(self.name, FALSE)
    ELSE U(32, Num(FALSE, <<self.index[1], self.index[2], 0, 0>>))

Widths == {8, 16, 32, 64}
Magnitudes ==
    {Mag(0), Mag(3), Mag(5), Mag(127), Mag(128), Mag(255), Mag(256), Mag(1337),
     Mag(32767), Mag(32768), Mag(Limb - 1), Wide(0, 1, 0, 0),
     Wide(Limb - 1, 32767, 0, 0), Wide(0, 32768, 0, 0), Wide(Limb - 1, Limb - 1, 0, 0),
     Wide(0, 0, 1, 0), Wide(5, 0, 1, 0), Wide(Limb - 1, Limb - 1, Limb - 1, 32767),
     Wide(0, 0, 0, 32768), Wide(Limb - 1, Limb - 1, Limb - 1, Limb - 1)}
Numbers == {Num(neg, mag) : neg \in BOOLEAN, mag \in Magnitudes} \ {Num(TRUE, Mag(0))}
Names == {"", "5", "name"}
Tokens ==
    {I(bits, v) : bits \in Widths, v \in Numbers} \cup {U(bits, v) : bits \in Widths, v \in Numbers}
        \cup {Str(s, owned) : s \in Names, owned \in BOOLEAN}
WellFormed(t) ==
    IF t.token = "I" THEN fits_signed(t.v, t.bits)
    ELSE IF t.token = "U" THEN fits_unsigned(t.v, t.bits)
    ELSE TRUE
CodecElements ==
    {Field(s) : s \in Names}
        \cup {Index(<<m[1], m[2]>>) : m \in {mag \in Magnitudes : below_pow2(mag, 32)}}

\* PathElement::deserialize(deserializer), the deserializer holding token t
PathDeserialize(t) ==
    /\ mode = "path" /\ pc = "idle"
    /\ WellFormed(t)
    /\ pc' = "returned"
    /\ call' = [change |-> <<>>, op |-> "deserialize", self |-> Field(""), token |-> t,
                res |-> PathElement_deserialize(t)]
    /\ UNCHANGED <<mode, doc, chain, tree, heap, roots, expect, mutex, tasks, db, trans>>
\* self.serialize(serializer)
PathSerialize(self) ==
    /\ mode = "path" /\ pc = "idle"
    /\ pc' = "serialized"
    /\ call' = [change |-> <<>>, op |-> "serialize", self |-> self,
                token |-> PathElement_serialize(self), res |-> PathErr]
    /\ UNCHANGED <<mode, doc, chain, tree, heap, roots, expect, mutex, tasks, db, trans>>
\* PathElement::deserialize(deserializer) on what was serialized; the
\* deserializer may hand a text over as an owned String
PathDeserializeSerialized(owned) ==
    /\ mode = "path" /\ pc = "serialized"
    /\ pc' = "returned"
    /\ call' = [call EXCEPT !.op = "round trip",
                    !.res = PathElement_deserialize(
                                IF call.token.token = "Str" THEN Str(call.token.s, owned)
                                ELSE call.token)]
    /\ UNCHANGED <<mode, doc, chain, tree, heap, roots, expect, mutex, tasks, db, trans>>
PathReturn ==
    /\ mode = "path" /\ pc = "returned"
    /\ pc' = "idle"
    /\ call' = NoCall
    /\ UNCHANGED <<mode, doc, chain, tree, heap, roots, expect, mutex, tasks, db, trans>>

InitPath == mode = "path" /\ InitIdle
NextPath ==
    \/ \E t \in Tokens : PathDeserialize(t)
    \/ \E self \in CodecElements : PathSerialize(self)
    \/ \E owned \in BOOLEAN : PathDeserializeSerialized(owned)
    \/ PathReturn
SpecPath == InitPath /\ [][NextPath]_vars

(***************************************************************************)
(* conflict.rs: increase_offset on the offsets side-table of an array      *)
(* node, a BTreeMap<u32, u32>.  A u32 is two 16-bit limbs, the low one     *)
(* first.  A sum that leaves u32 panics in a build with overflow checks    *)
(* and wraps in a build without them.                                      *)
(***************************************************************************)
MaxOffsetCalls == 3

u32(lo, hi) == <<lo, hi>>
u32_le(a, b) == a[2] < b[2] \/ (a[2] = b[2] /\ a[1] <= b[1])
\* a - b, for b <= a
u32_sub(a, b) ==
    IF a[1] >= b[1] THEN u32(a[1] - b[1], a[2] - b[2])
    ELSE u32(a[1] + Limb - b[1], a[2] - b[2] - 1)
\* a + b: the wrapped sum, and whether the sum left u32
u32_sum(lo, hi) == [value |-> u32(lo % Limb, hi % Limb), overflow |-> hi >= Limb]
u32_add(a, b) == u32_sum(a[1] + b[1], a[2] + b[2] + (a[1] + b[1]) \div Limb)

\* BTreeMap::range(..=index), next_back and insert
range_to(offsets, index) == {k \in DOMAIN offsets : u32_le(k, index)}
next_back(keys) == CHOOSE k \in keys : \A j \in keys : u32_le(j, k)
offsets_insert(offsets, k, v) ==
    [j \in DOMAIN offsets \cup {k} |-> IF j = k THEN v ELSE offsets[j]]

OffsetDone(offsets) == [panicked |-> FALSE, offsets |-> offsets]
AddOverflow(offsets) == [panicked |-> TRUE, offsets |-> offsets]
\* offsets.insert(index, <sum>), the sum computed first
insert_sum(offsets, index, sum, overflow, overflow_checks) ==
    IF overflow /\ overflow_checks THEN AddOverflow(offsets)
    ELSE OffsetDone(offsets_insert(offsets, index, sum))
\* val + add + 1
offset_from(offsets, index, s1, s2, overflow_checks) ==
    insert_sum(offsets, index, s2.value, s1.overflow \/ s2.overflow, overflow_checks)
offset_at(offsets, index, s1, overflow_checks) ==
    offset_from(offsets, index, s1, u32_add(s1.value, u32(1, 0)), overflow_checks)
offset_after(offsets, index, point, overflow_checks) ==
    offset_at(offsets, index, u32_add(offsets[point], u32_sub(index, point)),
              overflow_checks)
\* index + 1
offset_first(offsets, index, s, overflow_checks) ==
    insert_sum(offsets, index, s.value, s.overflow, overflow_checks)
increase_offset(offsets, index, overflow_checks) ==
    IF range_to(offsets, index) # {} THEN
        offset_after(offsets, index, next_back(range_to(offsets, index)),
                     overflow_checks)
    ELSE offset_first(offsets, index, u32_add(index, u32(1, 0)), overflow_checks)

OffsetIndices ==
    {u32(0, 0), u32(1, 0), u32(2, 0), u32(Limb - 1, 0), u32(0, 1),
     u32(Limb - 2, Limb - 1), u32(Limb - 1, Limb - 1)}

\* tree holds the offsets, chain the indices passed so far, expect the build
Increased(index, r) ==
    /\ pc' = "returned"
    /\ tree' = r.offsets
    /\ chain' = Append(chain, index)
    /\ call' = [change |-> <<>>, op |-> "increase_offset", index |-> index,
                before |-> tree, res |-> r]
    /\ UNCHANGED <<mode, doc, heap, roots, expect, mutex, tasks, db, trans>>
IncreaseOffset(index) ==
    /\ mode = "offset" /\ pc = "idle"
    /\ Len(chain) < MaxOffsetCalls
    /\ Increased(index, increase_offset(tree, index, expect.overflow_checks))
OffsetReturn ==
    /\ mode = "offset" /\ pc = "returned"
    /\ pc' = "idle"
    /\ call' = NoCall
    /\ UNCHANGED <<mode, doc, chain, tree, heap, roots, expect, mutex, tasks, db, trans>>

InitOffset ==
    /\ mode = "offset"
    /\ pc = "idle"
    /\ doc = DefaultValue
    /\ call = NoCall
    /\ chain = <<>>
    /\ tree = <<>>
    /\ heap = <<>>
    /\ roots = <<>>
    /\ expect \in {[overflow_checks |-> b] : b \in BOOLEAN}
    /\ mutex = <<>>
    /\ tasks = <<>>
    /\ db = <<>>
    /\ trans = <<>>
NextOffset ==
    \/ \E index \in OffsetIndices : IncreaseOffset(index)
    \/ OffsetReturn
SpecOffset == InitOffset /\ [][NextOffset]_vars

(***************************************************************************)
(* What the claims speak of: where a path leads, and what lies outside it. *)
(***************************************************************************)
IsPrefix(p, q) == Len(p) <= Len(q) /\ SubSeq(q, 1, Len(p)) = p
ProbeElements == {Field(k) : k \in Keys} \cup {Index(i) : i \in 0..MaxNodes}
ProbePaths == UNION {[1..n -> ProbeElements] : n \in 0..MaxNodes}

\* the same kind of value with, for a container, the same keys or length
SameShape(o1, o2) ==
    /\ o1.some = o2.some
    /\ o1.some =>
          /\ o1.value.tag = o2.value.tag
          /\ o1.value.tag = "Map" =>
                DOMAIN o1.value.entries = DOMAIN o2.value.entries
          /\ o1.value.tag = "Array" =>
                Len(o1.value.elems) = Len(o2.value.elems)

\* `after` is `before` except below path p: every place beside p holds what
\* it held, and every container above p has the keys (the length) it had
UnchangedOutside(before, after, p) ==
    \A q \in ProbePaths :
        IF IsPrefix(p, q) THEN TRUE
        ELSE IF IsPrefix(q, p) THEN SameShape(get(before, q), get(after, q))
        ELSE get(before, q) = get(after, q)

IsInvalidChange(res) == ~res.ok /\ "change" \in DOMAIN res
Returned(kind) == mode = "apply" /\ pc = "returned" /\ call.change.kind = kind

(***************************************************************************)
(* C1. Replace{path, old, new} succeeds iff path resolves (the empty path  *)
(* resolves to the root) and the value found there equals old; on success  *)
(* the value at path is new and everything outside path is unchanged;      *)
(* otherwise the result is InvalidChange.                                  *)
(***************************************************************************)
C1_Replace ==
    Returned("Replace") =>
        LET c == call.change
            found == get(call.before, c.path)
        IN  /\ call.res.ok <=> (found.some /\ ValueEq(found.value, c.old))
            /\ call.res.ok =>
                  /\ get(doc, c.path) = Some(c.new)
                  /\ UnchangedOutside(call.before, doc, c.path)
            /\ ~call.res.ok => IsInvalidChange(call.res)

\* a Replace two steps down that succeeded on a value equal to old, but not
\* the same bits
C1_Witness ==
    /\ Returned("Replace")
    /\ call.res.ok
    /\ Len(call.change.path) = 2
    /\ get(call.before, call.change.path).value # call.change.old
    /\ call.change.new # call.change.old

(***************************************************************************)
(* C2. Insert at p ++ [Field k] succeeds iff p resolves to a Map that does *)
(* not contain k; on success that map holds exactly its previous entries   *)
(* plus k -> value and the rest of the document is unchanged; otherwise    *)
(* the result is InvalidChange.                                            *)
(***************************************************************************)
C2_InsertMap ==
    (Returned("Insert") /\ call.change.path # <<>>
                        /\ Last(call.change.path).kind = "Field") =>
        LET c == call.change
            p == Parent(c.path)
            k == Last(c.path).name
            old == get(call.before, p)
            new == get(doc, p)
        IN  /\ call.res.ok <=> (/\ old.some
                                /\ old.value.tag = "Map"
                                /\ k \notin DOMAIN old.value.entries)
            /\ call.res.ok =>
                  /\ new.some
                  /\ new.value.tag = "Map"
                  /\ DOMAIN new.value.entries = DOMAIN old.value.entries \cup {k}
                  /\ new.value.entries[k] = c.value
                  /\ \A j \in DOMAIN old.value.entries :
                        new.value.entries[j] = old.value.entries[j]
                  /\ UnchangedOutside(call.before, doc, p)
            /\ ~call.res.ok => IsInvalidChange(call.res)

\* an Insert into a nested Map that already held another key
C2_Witness ==
    /\ Returned("Insert")
    /\ call.res.ok
    /\ Len(call.change.path) = 2
    /\ Last(call.change.path).kind = "Field"
    /\ DOMAIN get(call.before, Parent(call.change.path)).value.entries # {}

(***************************************************************************)
(* C3. Insert at p ++ [Index i] succeeds iff p resolves to an Array of     *)
(* length len with i <= len; on success the array has length len+1,        *)
(* element i is the inserted value, the elements formerly at positions     *)
(* >= i are each moved up by one in the same order, and the elements at    *)
(* positions < i are unchanged; i > len gives InvalidChange.               *)
(***************************************************************************)
C3_InsertArray ==
    (Returned("Insert") /\ call.change.path # <<>>
                        /\ Last(call.change.path).kind = "Index") =>
        LET c == call.change
            p == Parent(c.path)
            i == Last(c.path).index
            old == get(call.before, p)
            new == get(doc, p)
        IN  /\ call.res.ok <=> (/\ old.some
                                /\ old.value.tag = "Array"
                                /\ i <= Len(old.value.elems))
            /\ call.res.ok =>
                  /\ new.some
                  /\ new.value.tag = "Array"
                  /\ Len(new.value.elems) = Len(old.value.elems) + 1
                  /\ new.value.elems[i + 1] = c.value
                  /\ \A n \in 0..(Len(old.value.elems) - 1) :
                        IF n >= i
                        THEN new.value.elems[n + 2] = old.value.elems[n + 1]
                        ELSE new.value.elems[n + 1] = old.value.elems[n + 1]
                  /\ UnchangedOutside(call.before, doc, p)
            /\ ~call.res.ok => IsInvalidChange(call.res)

\* an Insert in front of an element of a nested Array, which moves it up
C3_Witness ==
    /\ Returned("Insert")
    /\ call.res.ok
    /\ Len(call.change.path) = 2
    /\ Last(call.change.path).kind = "Index"
    /\ Last(call.change.path).index <
          Len(get(call.before, Parent(call.change.path)).value.elems)

(***************************************************************************)
(* C4. Delete{path, old} with a non-empty path succeeds iff the parent of  *)
(* path is a Map containing the last field, or an Array with last index <  *)
(* len, and the addressed element equals old; on success exactly that      *)
(* element is removed (array elements after it shift left by one) and      *)
(* nothing else changes; in every other case, the empty path included, the *)
(* result is InvalidChange.                                                *)
(***************************************************************************)
C4_Delete ==
    Returned("Delete") =>
        LET c == call.change
            p == Parent(c.path)
            last == Last(c.path)
            old == get(call.before, p)
            new == get(doc, p)
            addressed == get(call.before, c.path)
        IN  /\ call.res.ok <=> (/\ c.path # <<>>
                                /\ addressed.some
                                /\ ValueEq(addressed.value, c.old))
            /\ (call.res.ok /\ last.kind = "Field") =>
                  /\ new.some
                  /\ new.value.tag = "Map"
                  /\ DOMAIN new.value.entries =
                        DOMAIN old.value.entries \ {last.name}
                  /\ \A j \in DOMAIN new.value.entries :
                        new.value.entries[j] = old.value.entries[j]
                  /\ UnchangedOutside(call.before, doc, p)
            /\ (call.res.ok /\ last.kind = "Index") =>
                  /\ new.some
                  /\ new.value.tag = "Array"
                  /\ Len(new.value.elems) = Len(old.value.elems) - 1
                  /\ \A n \in 0..(Len(new.value.elems) - 1) :
                        IF n >= last.index
                        THEN new.value.elems[n + 1] = old.value.elems[n + 2]
                        ELSE new.value.elems[n + 1] = old.value.elems[n + 1]
                  /\ UnchangedOutside(call.before, doc, p)
            /\ ~call.res.ok => IsInvalidChange(call.res)

\* a Delete of the first of two elements of an Array: the second shifts left
C4_Witness ==
    /\ Returned("Delete")
    /\ call.res.ok
    /\ Last(call.change.path).kind = "Index"
    /\ Last(call.change.path).index = 0
    /\ Len(get(call.before, Parent(call.change.path)).value.elems) = 2

(***************************************************************************)
(* C5. Whenever simple::apply of a single Insert, Replace or Delete        *)
(* returns InvalidChange, the document after the call is equal to the      *)
(* document before the call.                                               *)
(***************************************************************************)
C5_FailedChangeHasNoEffect ==
    (mode = "apply" /\ pc = "returned" /\ ~call.res.ok) =>
        /\ ValueEq(doc, call.before)
        /\ doc = call.before

\* a Delete that reached an existing Array element and failed on old
C5_Witness ==
    /\ Returned("Delete")
    /\ ~call.res.ok
    /\ call.change.path # <<>>
    /\ Last(call.change.path).kind = "Index"
    /\ get(call.before, call.change.path).some

(***************************************************************************)
(* What applying changes one at a time gives: the document after the first *)
(* n of them, each applied by simple::apply to what the one before left.   *)
(***************************************************************************)
RECURSIVE AfterFirst(_, _, _)
AfterFirst(before, changes, n) ==
    IF n = 0 THEN before
    ELSE apply(AfterFirst(before, changes, n - 1), changes[n]).this
FailsAt(before, changes, n) ==
    ~apply(AfterFirst(before, changes, n - 1), changes[n]).res.ok
Failing(before, changes) ==
    {n \in 1..Len(changes) : FailsAt(before, changes, n)}
FirstFailing(before, changes) ==
    CHOOSE n \in Failing(before, changes) :
        \A m \in Failing(before, changes) : n <= m

IterReturned == mode = "iter" /\ pc = "returned"

(***************************************************************************)
(* C7. apply_iter applies the changes in the given order; if change number *)
(* k is the first to fail, the call returns that change's InvalidChange,   *)
(* the changes after k are never applied, and the document is left as the  *)
(* changes before k made it (the successful prefix is not rolled back).    *)
(***************************************************************************)
C7_ApplyIterStopsAtFirstFailure ==
    IterReturned =>
        IF Failing(call.before, call.changes) = {}
        THEN /\ call.res = Ok
             /\ doc = AfterFirst(call.before, call.changes, Len(call.changes))
        ELSE LET k == FirstFailing(call.before, call.changes)
             IN  /\ call.res = InvalidChange(call.changes[k])
                 /\ doc = AfterFirst(call.before, call.changes, k - 1)

\* the second of two changes failed, after the first had changed the
\* document
C7_Witness ==
    /\ IterReturned
    /\ Len(call.changes) = 2
    /\ ~call.res.ok
    /\ call.res.change = call.changes[2]
    /\ doc # call.before

\* the first of two changes failed, and the second would have succeeded
C7_WitnessSkipped ==
    /\ IterReturned
    /\ Len(call.changes) = 2
    /\ ~call.res.ok
    /\ call.res.change = call.changes[1]
    /\ apply(doc, call.changes[2]).res.ok

(***************************************************************************)
(* C8. For every change sequence C that apply_iter applies successfully to *)
(* v, applying the inverses of C in reverse order also succeeds and yields *)
(* a document equal to the original v.                                     *)
(***************************************************************************)
C8_InverseRestores ==
    (mode = "iter" /\ pc = "undone") =>
        /\ call.res.ok
        /\ ValueEq(doc, call.undoes.before)

\* two changes were undone, and the document is equal to the original but
\* not the same bits
C8_Witness ==
    /\ mode = "iter"
    /\ pc = "undone"
    /\ Len(call.changes) = 2
    /\ call.res.ok
    /\ doc # call.undoes.before
    /\ call.before # call.undoes.before

(***************************************************************************)
(* C9. apply_iter(C1) followed by apply_iter(C2) gives the same document   *)
(* and the same outcome as one apply_iter(C1 ++ C2), whenever              *)
(* apply_iter(C1) succeeds.                                                *)
(***************************************************************************)
C9_TwoCallsAsOne ==
    (IterReturned /\ chain.calls = 1) =>
        LET whole == apply_iter(chain.start, chain.first \o call.changes)
        IN  /\ doc = whole.this
            /\ call.res = whole.res

\* a second call that failed, after a first one that changed the document
C9_Witness ==
    /\ IterReturned
    /\ chain.calls = 1
    /\ Len(chain.first) = 1
    /\ Len(call.changes) = 1
    /\ ~call.res.ok
    /\ call.before # chain.start

(***************************************************************************)
(* C6. Every InvalidChange error produced while applying a change, whether *)
(* directly by simple::apply or while a ChangeTree leaf applies the change *)
(* at a stripped sub-path, carries a ChangeContent equal to the original   *)
(* change as given by the caller: same kind, full original path, same      *)
(* old/new/value.                                                          *)
(***************************************************************************)
C6_ErrorCarriesOriginalChange ==
    (mode \in {"apply", "tree"} /\ pc = "returned" /\ IsInvalidChange(call.res)) =>
        /\ call.res.change.kind = call.change.kind
        /\ call.res.change.path = call.change.path
        /\ call.res.change = call.change

\* an Add leaf one step down handed the primitive a non-empty sub-path of a
\* three-step Insert, and the primitive failed
C6_Witness ==
    /\ mode = "tree"
    /\ pc = "returned"
    /\ IsInvalidChange(call.res)
    /\ Len(call.change.path) = 3
    /\ call.before.some
    /\ call.before.value.node = "Map"
    /\ call.change.path[1].kind = "Field"
    /\ call.change.path[1].name \in DOMAIN call.before.value.fields
    /\ call.before.value.fields[call.change.path[1].name].node = "Add"

(***************************************************************************)
(* C10. Copy-on-write isolation: after w is obtained by cloning v, any     *)
(* sequence of get_mut calls and of successful or failing changes applied  *)
(* to w leaves v equal to its value at clone time, and any such sequence   *)
(* applied to v leaves w unchanged, even though the two share interior     *)
(* containers.  (expect[r] is what the operations on r alone make of the   *)
(* value r had when w was cloned.)                                         *)
(***************************************************************************)
C10_CopyOnWriteIsolation ==
    mode = "cow" =>
        \A r \in DOMAIN roots :
            /\ Content(heap, roots[r]) = expect[r]
            /\ ValueEq(Content(heap, roots[r]), expect[r])

\* the allocations a Value in memory reaches
RECURSIVE Reaches(_, _)
Reaches(h, val) ==
    IF IsArc(val)
    THEN {val.arc} \cup UNION {Reaches(h, h[val.arc].data[k]) : k \in DOMAIN h[val.arc].data}
    ELSE {}

\* v and w have come to differ below a container that both were written
\* through, and still share a container further down
C10_Witness ==
    /\ mode = "cow"
    /\ DOMAIN roots = {"v", "w"}
    /\ IsArc(roots.v) /\ IsArc(roots.w)
    /\ roots.v.arc # roots.w.arc
    /\ ~ValueEq(expect.v, expect.w)
    /\ Reaches(heap, roots.v) \cap Reaches(heap, roots.w) # {}

\* the strong count of every allocation is the number of Values that hold it
StrongCountsExact ==
    mode = "cow" =>
        \A id \in DOMAIN heap :
            heap[id].strong =
                Cardinality({r \in DOMAIN roots : IsArc(roots[r]) /\ roots[r].arc = id})
                + Cardinality({<<p, k>> \in UNION {{<<q, j>> : j \in DOMAIN heap[q].data} :
                                                       q \in DOMAIN heap} :
                                  IsArc(heap[p].data[k]) /\ heap[p].data[k].arc = id})

(***************************************************************************)
(* C11. get(p) returns the sub-value reached by walking p iff every Field  *)
(* step meets a Map containing that key and every Index step meets an      *)
(* Array with index < len, and none otherwise; get with the empty path     *)
(* returns the document itself; get_mut(p) returns a reference for exactly *)
(* the same paths and to an equal value; neither call changes the          *)
(* document's value.                                                       *)
(***************************************************************************)
\* the paths that lead somewhere in a value, found from the value
RECURSIVE Positions(_)
Positions(v) ==
    {<<>>}
    \cup (IF v.tag = "Map"
          THEN UNION {{<<Field(k)>> \o q : q \in Positions(v.entries[k])} :
                          k \in DOMAIN v.entries}
          ELSE IF v.tag = "Array"
          THEN UNION {{<<Index(n - 1)>> \o q : q \in Positions(v.elems[n])} :
                          n \in DOMAIN v.elems}
          ELSE {})

\* the sub-value at a position
RECURSIVE SubValue(_, _)
SubValue(v, p) ==
    IF p = <<>> THEN v
    ELSE IF v.tag = "Map" THEN SubValue(v.entries[Head(p).name], Tail(p))
    ELSE SubValue(v.elems[Head(p).index + 1], Tail(p))

C11_GetAndGetMut ==
    (mode = "cow" /\ pc = "returned") =>
        /\ call.res.some <=> call.path \in Positions(expect[call.root])
        /\ call.res.some => call.res.value = SubValue(expect[call.root], call.path)
        /\ call.path = <<>> => call.res = Some(expect[call.root])
        /\ call.res = get(expect[call.root], call.path)
        /\ \A r \in DOMAIN roots : Content(heap, roots[r]) = expect[r]

\* get_mut has returned a reference into a container that it had to
\* unshare from the clone
C11_Witness ==
    /\ mode = "cow" /\ pc = "returned"
    /\ call.op = "get_mut"
    /\ Len(call.path) = 2
    /\ call.res.some
    /\ DOMAIN roots = {"v", "w"}
    /\ IsArc(roots.v) /\ IsArc(roots.w)
    /\ roots.v.arc # roots.w.arc
    /\ expect.v = expect.w

\* get has found nothing where an index is the length of the array
C11_WitnessNone ==
    /\ mode = "cow" /\ pc = "returned"
    /\ call.op = "get"
    /\ ~call.res.some
    /\ Len(call.path) = 2
    /\ Parent(call.path) \in Positions(expect[call.root])
    /\ SubValue(expect[call.root], Parent(call.path)).tag = "Array"
    /\ Last(call.path).index = Len(SubValue(expect[call.root], Parent(call.path)).elems)
    /\ Last(call.path).index > 0

(***************************************************************************)
(* C12. For change sequences C1, C2 that touch disjoint paths and each     *)
(* apply to the ancestor A, check_conflicts_common_ancestor(A, C1, C2)     *)
(* returns Resolved with changes = [C1, C2] and the value of applying      *)
(* C1 ++ C2 to A.                                                          *)
(***************************************************************************)
PathsOf(changes) == {changes[n].path : n \in DOMAIN changes}
DisjointPaths(change1, change2) ==
    \A p \in PathsOf(change1), q \in PathsOf(change2) : ~IsPrefix(p, q) /\ ~IsPrefix(q, p)

C12_DisjointMergeResolved ==
    (/\ mode = "conflict" /\ pc = "returned"
     /\ call.change1 # <<>> /\ call.change2 # <<>>
     /\ DisjointPaths(call.change1, call.change2)
     /\ apply_iter(call.ancestor, call.change1).res.ok
     /\ apply_iter(call.ancestor, call.change2).res.ok) =>
        call.res = Some(Resolved(apply_iter(call.ancestor, call.change1 \o call.change2).this,
                                 <<call.change1, call.change2>>))

(***************************************************************************)
(* C13. When C1 and C2 both Replace the same path with the same old value  *)
(* but different new values, the call returns Active with the unmodified   *)
(* ancestor as common_value, the trees of C1 and C2 as conflicts and empty *)
(* common_changes; when the new values are equal it returns Resolved.      *)
(***************************************************************************)
C13_SameReplaceConflict ==
    (/\ mode = "conflict" /\ pc = "returned"
     /\ Len(call.change1) = 1 /\ Len(call.change2) = 1
     /\ call.change1[1].kind = "Replace" /\ call.change2[1].kind = "Replace"
     /\ call.change1[1].path = call.change2[1].path
     /\ ValueEq(call.change1[1].old, call.change2[1].old)
     /\ apply_iter(call.ancestor, call.change1).res.ok) =>
        IF ValueEq(call.change1[1].new, call.change2[1].new)
        THEN call.res.some /\ call.res.value.conflict = "Resolved"
        ELSE call.res = Some(Active(call.ancestor,
                                    <<construct(call.change1).tree.value,
                                      construct(call.change2).tree.value>>,
                                    <<<<>>, <<>>>>))

(***************************************************************************)
(* C14. For every finite sequence of ChangeContent, ChangeTree::construct  *)
(* returns either Ok(tree) or Err(InvalidChange) and never panics; in      *)
(* particular a sequence whose second or later element is a Replace or a   *)
(* Delete returns a typed result.                                          *)
(***************************************************************************)
C14_ConstructNeverPanics ==
    (mode = "construct" /\ pc = "returned") =>
        call.res.ok \/ IsInvalidChange(call.res)

(***************************************************************************)
(* C15. For every set of changes whose paths are pairwise distinct and     *)
(* not prefixes of one another, construct builds the same tree for every   *)
(* permutation of the set, including sets that insert at different indices *)
(* of the same array.                                                      *)
(***************************************************************************)
PairwiseDisjoint(iter) ==
    \A m, n \in DOMAIN iter : m # n => ~IsPrefix(iter[m].path, iter[n].path)
Permuted(iter) ==
    {[n \in DOMAIN iter |-> iter[f[n]]] : f \in Permutations(DOMAIN iter)}

C15_ConstructOrderIndependent ==
    (mode = "construct" /\ pc = "returned" /\ PairwiseDisjoint(call.iter)) =>
        \A other \in Permuted(call.iter) :
            /\ construct(other).ok = call.res.ok
            /\ call.res.ok => construct(other) = call.res

(***************************************************************************)
(* C16. For every path p and values a, b,                                  *)
(* construct([Delete{p, old: a}, Insert{p, value: b}]) succeeds and the    *)
(* node at p in the resulting tree is the single leaf                      *)
(* Replace{old: a, new: b, changes: [that Delete, that Insert]}, the two   *)
(* changes in that order.                                                  *)
(***************************************************************************)
\* the node of a tree that a path leads to
RECURSIVE NodeAt(_, _)
NodeAt(t, p) ==
    IF p = <<>> THEN Some(t)
    ELSE IF t.node = "Map" /\ Head(p).kind = "Field" /\ Head(p).name \in DOMAIN t.fields
    THEN NodeAt(t.fields[Head(p).name], Tail(p))
    ELSE IF t.node = "Array" /\ Head(p).kind = "Index" /\ Head(p).index \in DOMAIN t.data
    THEN NodeAt(t.data[Head(p).index], Tail(p))
    ELSE None

\* the number of leaves of a tree
RECURSIVE Leaves(_)
Leaves(t) ==
    IF t.node \in {"Map", "Array"}
    THEN LET sub == IF t.node = "Map" THEN t.fields ELSE t.data
             RECURSIVE Sum(_)
             Sum(ks) == IF ks = {} THEN 0
                        ELSE LET k == CHOOSE x \in ks : TRUE
                             IN  Leaves(sub[k]) + Sum(ks \ {k})
         IN  Sum(DOMAIN sub)
    ELSE 1

DeleteThenInsert ==
    /\ mode = "construct" /\ pc = "returned"
    /\ Len(call.iter) = 2
    /\ call.iter[1].kind = "Delete"
    /\ call.iter[2].kind = "Insert"
    /\ call.iter[1].path = call.iter[2].path

C16_DeleteThenInsertIsReplace ==
    DeleteThenInsert =>
        /\ call.res.ok
        /\ call.res.tree.some
        /\ NodeAt(call.res.tree.value, call.iter[1].path) =
               Some(TreeReplace(call.iter[1].old, call.iter[2].value, call.iter))
        /\ Leaves(call.res.tree.value) = 1

\* the Delete and the Insert are at a path that descends through a Map and
\* an Array, with different values
C16_Witness ==
    /\ DeleteThenInsert
    /\ call.res.ok
    /\ Len(call.iter[1].path) = 2
    /\ call.iter[1].old # call.iter[2].value
    /\ call.res.tree.value.node = "Map"

(***************************************************************************)
(* C17. Mutual exclusion of the async Mutex: in every state reachable by   *)
(* any interleaving of lock() polls, try_lock(), try_lock_owned(), guard   *)
(* drops and lock-future drops, at most one guard for the mutex is alive,  *)
(* and the locked flag is true exactly while a guard is alive.             *)
(***************************************************************************)
C17_MutualExclusion ==
    mode = "mutex" =>
        /\ Cardinality(GuardsAlive) <= 1
        /\ mutex.locked <=> GuardsAlive # {}

(***************************************************************************)
(* C18. Dropping the live guard of a mutex, of any guard kind and also     *)
(* after the guard was converted by map, leaves the mutex unlocked and     *)
(* wakes the waiter at the head of the queue if there is one; converting a *)
(* guard with map does not itself release the lock, and every guard        *)
(* handed out is released exactly once in total.                           *)
(***************************************************************************)
C18_GuardDropReleasesOnce ==
    mode = "mutex" =>
        /\ call.op = "drop_guard" =>
              /\ ~mutex.locked
              /\ mutex.queue = call.before.queue
              /\ call.before.queue # <<>> =>
                    /\ Head(call.before.queue).some
                    /\ Head(call.before.queue).value.waker \in call.woke
                    /\ tasks[Head(call.before.queue).value.waker].woken
        /\ call.op = "map" =>
              /\ mutex = call.before
              /\ call.woke = {}
              /\ tasks[call.task].guard = Some("MappedMutexGuard")
        /\ chain.unlocks + Cardinality(GuardsAlive) = chain.guards

\* a guard that a lock future gave and map converted has been dropped
\* while a waiter was queued
C18_Witness ==
    /\ mode = "mutex"
    /\ call.op = "drop_guard"
    /\ call.res = Some("MappedMutexGuard")
    /\ call.before.locked
    /\ call.before.queue # <<>>
    /\ Head(call.before.queue).value.waker # call.task

(***************************************************************************)
(* C19. Waiters obtain the lock in FIFO order of arrival: a lock future    *)
(* whose poll obtains the guard has no waiter queued ahead of it, whether  *)
(* it was queued itself or polls for the first time.                       *)
(***************************************************************************)
C19_FifoOrder ==
    (mode = "mutex" /\ call.op = "poll" /\ call.poll = "Ready") =>
        \A n \in DOMAIN call.before.queue :
            call.before.queue[n].some =>
                \/ call.before.queue[n].value.waker = call.task
                \/ \E k \in 1..(n - 1) :
                      /\ call.before.queue[k].some
                      /\ call.before.queue[k].value.waker = call.task

(***************************************************************************)
(* C20. Dropping a lock future that is waiting in the queue removes that   *)
(* waiter from the queue without disturbing the order or identity of the   *)
(* other waiters, and if the dropped waiter was the head, the waiter that  *)
(* becomes the new head is woken.                                          *)
(***************************************************************************)
IsWaiting(entry) == entry.some
Waiters(queue) == SelectSeq(queue, IsWaiting)
WaitersBut(queue, id) ==
    LET Other(entry) == entry.some /\ entry.value.id # id
    IN  SelectSeq(queue, Other)
WaiterDropped ==
    mode = "mutex" /\ call.op = "drop_future" /\ call.id.some
HeadDropped ==
    /\ WaiterDropped
    /\ Head(call.before.queue).value.id = call.id.value
    /\ mutex.queue # <<>>

\* with the wake-up required whenever the head is dropped
C20_DropWakesNewHead ==
    /\ WaiterDropped => Waiters(mutex.queue) = WaitersBut(call.before.queue, call.id.value)
    /\ HeadDropped => Head(mutex.queue).value.waker \in call.woke

\* with the wake-up required only when the mutex is not locked, as
\* drop_future does it; a locked mutex wakes the head on unlock
C20_DropWakesNewHeadIfUnlocked ==
    /\ WaiterDropped =>
          Waiters(mutex.queue) = WaitersBut(call.before.queue, call.id.value)
    /\ (HeadDropped /\ ~call.before.locked) =>
          /\ Head(mutex.queue).some
          /\ Head(mutex.queue).value.waker \in call.woke
          /\ tasks[Head(mutex.queue).value.waker].woken

\* the head waiter, woken by an unlock, was dropped before it polled, and
\* the waiter behind it has become the head
C20_Witness ==
    /\ HeadDropped
    /\ ~call.before.locked
    /\ Head(mutex.queue).value.waker # call.task

\* remove_waker has been called only where its waker is
MutexNeverPanics == (mode = "mutex" /\ pc = "panicked") => call.poll = "fused"

(***************************************************************************)
(* C21. A lock future reports is_terminated() = true exactly from the      *)
(* moment its poll has returned a guard; polling it again after that is    *)
(* rejected as a programming error (the assertion fails) and never hands   *)
(* out a second guard, and dropping a completed future does not touch the  *)
(* waiter queue.                                                           *)
(***************************************************************************)
PollOf(t) == call'.op = "poll" /\ call'.task = t
FusedStep(t) ==
    /\ (~tasks[t].future.some /\ tasks'[t].future.some) =>
          ~is_terminated(tasks'[t].future.value)
    /\ (tasks[t].future.some /\ tasks'[t].future.some) =>
          /\ is_terminated(tasks[t].future.value) => is_terminated(tasks'[t].future.value)
          /\ (~is_terminated(tasks[t].future.value)
                    /\ is_terminated(tasks'[t].future.value)) =>
                /\ PollOf(t) /\ call'.poll = "Ready"
                /\ ~tasks[t].guard.some /\ tasks'[t].guard.some
          /\ (PollOf(t) /\ call'.poll = "Ready") =>
                ~is_terminated(tasks[t].future.value)
                    /\ is_terminated(tasks'[t].future.value)
          /\ (PollOf(t) /\ is_terminated(tasks[t].future.value)) =>
                /\ pc' = "panicked"
                /\ call'.poll = "fused"
                /\ tasks'[t].guard = tasks[t].guard
                /\ chain'.guards = chain.guards
                /\ mutex' = mutex
    /\ (tasks[t].future.some /\ is_terminated(tasks[t].future.value)
            /\ call'.op = "drop_future" /\ call'.task = t) =>
          /\ ~tasks'[t].future.some
          /\ mutex' = mutex
          /\ call'.woke = {}
C21_FusedAfterGuard ==
    [][mode = "mutex" => \A t \in Tasks : FusedStep(t)]_vars

\* a completed lock future has been polled again
C21_Witness ==
    /\ mode = "mutex" /\ pc = "panicked"
    /\ call.op = "poll" /\ call.poll = "fused"
    /\ tasks[call.task].guard.some
\* a completed lock future has been dropped while waiters were queued
C21_WitnessDropped ==
    /\ mode = "mutex" /\ call.op = "drop_future" /\ call.id = None
    /\ ~tasks[call.task].future.some /\ tasks[call.task].guard.some
    /\ mutex.queue # <<>>


(***************************************************************************)
(* C22. Storage add_change is idempotent by hash: calling it with a hash   *)
(* that is already stored returns the id of the stored row, adds no change *)
(* row and adds no parent edges, whatever content and parents the later    *)
(* call passes, neither in what the call's transaction has written when    *)
(* the call returns nor in the database.                                   *)
(***************************************************************************)
AddChangeReturned ==
    mode = "store" /\ pc = "returned" /\ call.op = "add_change"
C22_AddChangeIdempotent ==
    (AddChangeReturned /\ select_id(call.before, call.hash).some) =>
        /\ call.err \in {"", "Busy"}
        /\ call.ok => call.id = select_id(call.before, call.hash).value
        /\ call.view = call.before
        /\ db = call.before

\* a stored hash was added again with another content and with a parent
\* that is not its parent in the database
C22_Witness ==
    /\ AddChangeReturned
    /\ call.ok
    /\ \E row \in call.before.changes :
          /\ row.hash = call.hash
          /\ row.content # call.content
          /\ \E i \in DOMAIN call.parents :
                call.parents[i] \notin
                    {parent.hash : parent \in
                        {p \in call.before.changes :
                            Rel(p.id, row.id) \in call.before.change_rels}}

(***************************************************************************)
(* C23. Storage add_change is all-or-nothing: every step either leaves the *)
(* database as it is or adds one change row together with the edges from   *)
(* all of its parents; an add_change that fails or is cancelled at one of  *)
(* its awaits leaves the database as it was, and every edge of the         *)
(* database joins two rows of it.                                          *)
(***************************************************************************)
EdgesOf(d, parents, id) == {Rel(select_id(d, parents[i]).value, id) : i \in DOMAIN parents}
WholeInsertion ==
    /\ pc' = "returned" /\ call'.op = "add_change" /\ call'.ok
    /\ ~select_id(db, call'.hash).some
    /\ \A i \in DOMAIN call'.parents : select_id(db, call'.parents[i]).some
    /\ db'.changes = db.changes \cup {Row(call'.id, call'.hash, call'.content)}
    /\ db'.change_rels = db.change_rels \cup EdgesOf(db, call'.parents, call'.id)
EdgesJoinRows ==
    mode = "store" =>
        \A rel \in db.change_rels :
            /\ \E row \in db.changes : row.id = rel.parent
            /\ \E row \in db.changes : row.id = rel.child
AllOrNothing ==
    mode = "store" =>
        /\ db' # db => WholeInsertion
        /\ (pc = "idle" /\ pc' = "returned" /\ ~call'.ok) => db' = db
C23_AddChangeAllOrNothing == []EdgesJoinRows /\ [][AllOrNothing]_vars

\* an add_change has failed on its second parent after it had written the
\* row and the edge from its first parent
C23_Witness ==
    /\ AddChangeReturned
    /\ call.err = "RowNotFound"
    /\ call.view.changes # call.before.changes
    /\ call.view.change_rels # call.before.change_rels
    /\ db = call.before
\* an add_change has been cancelled after it had written
C23_WitnessCancelled ==
    /\ mode = "store" /\ pc = "returned" /\ call.op = "cancel"
    /\ call.view # call.before
    /\ db = call.before

(***************************************************************************)
(* C24. After add_change(hash, content, parents) has returned Ok(id) for a *)
(* hash not stored before, the change is persisted: get_change_id(hash)    *)
(* returns that id, get_change_content(id) returns content, and            *)
(* get_change_rels(id) returns the ids of exactly the given parents        *)
(* ordered by parent hash ascending.                                       *)
(***************************************************************************)
RECURSIVE Ascending(_)
Ascending(hashes) ==
    IF hashes = {} THEN <<>>
    ELSE <<CHOOSE h \in hashes : \A other \in hashes : h <= other>>
            \o Ascending(hashes \ {CHOOSE h \in hashes : \A other \in hashes : h <= other})
ParentIds(d, parents) ==
    [i \in DOMAIN Ascending({parents[j] : j \in DOMAIN parents}) |->
        get_change_id(d, Ascending({parents[j] : j \in DOMAIN parents})[i])]
C24_AddChangePersists ==
    (AddChangeReturned /\ call.ok /\ ~select_id(call.before, call.hash).some) =>
        /\ get_change_id(db, call.hash) = Some(call.id)
        /\ get_change_content(db, call.id) = [ok |-> TRUE, content |-> call.content]
        /\ [i \in DOMAIN get_change_rels(db, call.id) |->
               Some(get_change_rels(db, call.id)[i])] = ParentIds(db, call.parents)

(***************************************************************************)
(* C25. For all hashes a, b: Parents::two(a, b) returns ParentHashSame iff *)
(* a = b; otherwise it returns Two(min(a,b), max(a,b)) under lexicographic *)
(* byte order, so Parents::two(a, b) = Parents::two(b, a) and the first    *)
(* stored hash is strictly smaller than the second; Parents::one always    *)
(* succeeds.                                                               *)
(***************************************************************************)
LexLess(a, b) ==
    \E i \in 1..HashLen :
        /\ a[i] < b[i]
        /\ \A j \in 1..(i - 1) : a[j] = b[j]
ParentsReturned(op) == mode = "parents" /\ pc = "returned" /\ call.op = op
C25_ParentsTwoOrdered ==
    /\ ParentsReturned("two") =>
          /\ call.res = ParentsErr("ParentHashSame") <=> call.p1 = call.p2
          /\ call.p1 # call.p2 =>
                /\ call.res.ok
                /\ call.res.value.variant = "Two"
                /\ {call.res.value.p1, call.res.value.p2} = {call.p1, call.p2}
                /\ LexLess(call.res.value.p1, call.res.value.p2)
          /\ call.res = Parents_two(call.p2, call.p1)
    /\ ParentsReturned("one") => call.res = ParentsOk(One(call.p1))

\* two was called with the larger hash first, the hashes alike in their
\* first byte
C25_Witness ==
    /\ ParentsReturned("two")
    /\ call.res.ok
    /\ call.res.value.p1 = call.p2
    /\ call.p1[1] = call.p2[1]

(***************************************************************************)
(* C26. Decoding a Parents value accepts exactly the sequences of one      *)
(* hash, or of two hashes in strictly ascending order; sequences of length *)
(* 0 or more than 2, two equal hashes, and two hashes in descending order  *)
(* are decoding errors; every Parents built by Parents::one or             *)
(* Parents::two decodes from its own encoding to an equal value, and the   *)
(* encoding of Parents::two(h_big, h_small) is [h_small, h_big].           *)
(***************************************************************************)
Accepted(seq) ==
    \/ Len(seq) = 1 /\ seq[1] \in ByteHashes
    \/ /\ Len(seq) = 2 /\ seq[1] \in ByteHashes /\ seq[2] \in ByteHashes
       /\ LexLess(seq[1], seq[2])
C26_ParentsDecoding ==
    /\ ParentsReturned("deserialize") =>
          /\ call.res.ok <=> Accepted(call.seq)
          /\ call.res.ok =>
                call.res.value = IF Len(call.seq) = 1 THEN One(call.seq[1])
                                 ELSE Two(call.seq[1], call.seq[2])
    /\ ParentsReturned("serialize") =>
          /\ visit_seq(call.encoded) = call.res
          /\ (call.p2 # <<>> /\ LexLess(call.p2, call.p1)) =>
                call.encoded = <<call.p2, call.p1>>

\* two hashes in descending order were refused
C26_Witness ==
    /\ ParentsReturned("deserialize")
    /\ Len(call.seq) = 2
    /\ call.res = ParentsErr("parents not ordered")
    /\ LexLess(call.seq[2], call.seq[1])
\* Parents::two(h_big, h_small) was encoded
C26_WitnessEncoded ==
    /\ ParentsReturned("serialize")
    /\ call.p2 # <<>>
    /\ LexLess(call.p2, call.p1)
    /\ call.encoded = <<call.p2, call.p1>>


(***************************************************************************)
(* C27. For every Value v that serializes successfully, deserializing the  *)
(* serialized form yields a Value equal to v under Value equality; a Blob  *)
(* is encoded as one byte string made of the length byte L = mime length,  *)
(* the L mime bytes, then the data bytes.                                  *)
(***************************************************************************)
C27_ValueRoundTrip ==
    /\ (mode = "serde" /\ pc = "returned" /\ call.op = "round trip") =>
          /\ call.res.ok
          /\ call.res.rest = <<>>
          /\ ValueEq(call.res.value, call.value)
          /\ ValueEq(call.value, call.res.value)
    /\ (mode = "serde" /\ pc = "serialized" /\ call.value.tag = "Blob") =>
          /\ Len(call.input) = 1
          /\ call.input[1].item = "Bytes"
          /\ call.input[1].bytes[1] = Len(as_bytes(call.value.mime))
          /\ SubSeq(call.input[1].bytes, 2, 1 + Len(as_bytes(call.value.mime)))
                = as_bytes(call.value.mime)
          /\ SubSeq(call.input[1].bytes, 2 + Len(as_bytes(call.value.mime)),
                    Len(call.input[1].bytes)) = call.value.data

\* a map that holds a blob with data, behind a NaN, came back from an
\* owned buffer
C27_Witness ==
    /\ mode = "serde" /\ pc = "returned" /\ call.op = "round trip"
    /\ call.owned
    /\ call.value.tag = "Map"
    /\ DOMAIN call.value.entries = {"a", "b"}
    /\ call.value.entries["a"].tag = "Float"
    /\ call.value.entries["b"].tag = "Blob"
    /\ call.value.entries["b"].data # <<>>
    /\ call.res.value # call.value

(***************************************************************************)
(* C28. Serializing a Blob whose mime is longer than 255 bytes is rejected *)
(* with an error and emits nothing; deserializing a byte string is         *)
(* rejected when it is empty, when its first byte L exceeds the number of  *)
(* remaining bytes, or when the L mime bytes are not valid UTF-8, and is   *)
(* accepted otherwise with data equal to the bytes after the mime.         *)
(***************************************************************************)
Utf8Strings == UNION {[1..n -> {0, 1, 2, 233}] : n \in 0..MaxBytes}
ValidUtf8(bytes) == \E s \in Utf8Strings : as_bytes(s) = bytes
BytesAccepted(v) ==
    /\ v # <<>>
    /\ v[1] <= Len(v) - 1
    /\ ValidUtf8(SubSeq(v, 2, v[1] + 1))
C28_BlobLimits ==
    /\ (mode = "serde" /\ pc \in {"serialized", "returned"} /\ call.op = "serialize"
            /\ call.value.tag = "Blob") =>
          /\ call.ser.ok <=> Len(as_bytes(call.value.mime)) <= 255
          /\ ~call.ser.ok => call.ser.out = <<>>
    /\ (mode = "serde" /\ pc = "returned" /\ call.op = "deserialize") =>
          /\ call.res.ok <=> BytesAccepted(call.input[1].bytes)
          /\ call.res.ok =>
                /\ call.res.value.tag = "Blob"
                /\ as_bytes(call.res.value.mime)
                      = SubSeq(call.input[1].bytes, 2, call.input[1].bytes[1] + 1)
                /\ call.res.value.data
                      = SubSeq(call.input[1].bytes, call.input[1].bytes[1] + 2,
                               Len(call.input[1].bytes))

\* a blob with a mime of 128 code points in 256 bytes was refused
C28_Witness ==
    /\ mode = "serde" /\ pc = "returned" /\ call.op = "serialize"
    /\ call.value.tag = "Blob"
    /\ Len(call.value.mime) < 255
    /\ ~call.ser.ok
\* a byte string whose length byte exceeds what follows was refused
C28_WitnessShort ==
    /\ mode = "serde" /\ pc = "returned" /\ call.op = "deserialize"
    /\ Len(call.input[1].bytes) = 2
    /\ call.input[1].bytes[1] = 2
    /\ ~call.res.ok

(***************************************************************************)
(* C29. Value equality is an equivalence relation that depends only on     *)
(* content: any two NaN floats are equal whatever their bit patterns,      *)
(* +0.0 equals -0.0, two values built separately with equal content are    *)
(* equal regardless of container sharing, and values of different variants *)
(* (for example Integer(1) and Float(1.0)) are never equal.                *)
(***************************************************************************)
\* the content with the bit pattern of a NaN and the sign of a zero left out
RECURSIVE Canonical(_)
Canonical(v) ==
    IF v.tag = "Float"
    THEN Float(IF is_nan(v.f) THEN "NaN:max" ELSE IF v.f = "-0.0" THEN "+0.0" ELSE v.f)
    ELSE IF v.tag = "Array" THEN Array([n \in DOMAIN v.elems |-> Canonical(v.elems[n])])
    ELSE IF v.tag = "Map" THEN Map([k \in DOMAIN v.entries |-> Canonical(v.entries[k])])
    ELSE v
Compared == mode = "eq" /\ pc = "returned" /\ call.op = "eq"
C29_ValueEqEquivalence ==
    Compared =>
        \A n \in DOMAIN call.eq :
            /\ call.eq[n][n]
            /\ \A m \in DOMAIN call.eq :
                  /\ call.eq[n][m] = call.eq[m][n]
                  /\ call.eq[n][m] <=> Canonical(call.content[n]) = Canonical(call.content[m])
                  /\ call.content[n].tag # call.content[m].tag => ~call.eq[n][m]
                  /\ \A k \in DOMAIN call.eq :
                        call.eq[n][m] /\ call.eq[m][k] => call.eq[n][k]

\* two arrays built apart that hold NaNs of different bits compared equal,
\* and so did a clone
C29_Witness ==
    /\ Compared
    /\ Len(call.content) = 3
    /\ call.content[1] = Array(<<Float("NaN:max")>>)
    /\ call.content[2] = Array(<<Float("NaN:max-1")>>)
    /\ call.shared[1] = {1, 3}
    /\ call.eq[1][2] /\ call.eq[2][3]
\* Integer(1) and Float(1.0) compared unequal, +0.0 and -0.0 equal
C29_WitnessVariants ==
    /\ Compared
    /\ Len(call.content) = 3
    /\ call.content[1] = Integer(1)
    /\ call.content[2] = Float("1.0")
    /\ ~call.eq[1][2]
C29_WitnessZero ==
    /\ Compared
    /\ Len(call.content) = 2
    /\ call.content[1] = Float("+0.0")
    /\ call.content[2] = Float("-0.0")
    /\ call.eq[1][2]

(***************************************************************************)
(* C30. Decoding a PathElement from an integer of any signed or unsigned   *)
(* width yields Index(n) iff 0 <= n <= u32::MAX and is a decoding error    *)
(* for negative values and values above u32::MAX; decoding from a borrowed *)
(* or owned string yields Field with that string; encoding an Index emits  *)
(* an unsigned 32-bit integer and a Field emits a string, and              *)
(* encode-then-decode returns an equal PathElement, so Field("5") and      *)
(* Index(5) never collide.                                                 *)
(***************************************************************************)
U32_MAX == Wide(Limb - 1, Limb - 1, 0, 0)
\* a <= b, of magnitudes
RECURSIVE MagLe(_, _, _)
MagLe(a, b, n) ==
    IF n = 0 THEN TRUE
    ELSE IF a[n] # b[n] THEN a[n] < b[n]
    ELSE MagLe(a, b, n - 1)
InU32(v) == ~v.neg /\ MagLe(v.mag, U32_MAX, 4)
PathDecoded == mode = "path" /\ pc = "returned" /\ call.op = "deserialize"
C30_PathElementCodec ==
    /\ (PathDecoded /\ call.token.token \in {"I", "U"}) =>
          /\ call.res.ok <=> InU32(call.token.v)
          /\ call.res.ok =>
                /\ call.res.value.kind = "Index"
                /\ call.token.v.mag = call.res.value.index \o <<0, 0>>
    /\ (PathDecoded /\ call.token.token = "Str") =>
          /\ call.res.ok
          /\ call.res.value = Field(call.token.s)
    /\ (mode = "path" /\ pc = "serialized") =>
          /\ call.self.kind = "Index" =>
                /\ call.token.token = "U" /\ call.token.bits = 32
                /\ call.token.v = Num(FALSE, call.self.index \o <<0, 0>>)
          /\ call.self.kind = "Field" =>
                /\ call.token.token = "Str"
                /\ call.token.s = call.self.name
    /\ (mode = "path" /\ pc = "returned" /\ call.op = "round trip") =>
          /\ call.res.ok
          /\ call.res.value = call.self

\* an i64 of 2^32 was refused
C30_Witness ==
    /\ PathDecoded
    /\ call.token.token = "I" /\ call.token.bits = 64
    /\ call.token.v = Num(FALSE, Wide(0, 0, 1, 0))
    /\ ~call.res.ok
\* a u64 of u32::MAX was taken
C30_WitnessMax ==
    /\ PathDecoded
    /\ call.token.token = "U" /\ call.token.bits = 64
    /\ call.token.v.mag = U32_MAX
    /\ call.res.ok
\* an i8 of -128 was refused
C30_WitnessNegative ==
    /\ PathDecoded
    /\ call.token.token = "I" /\ call.token.bits = 8
    /\ call.token.v = Num(TRUE, Mag(128))
    /\ ~call.res.ok
\* Field("5") came back as Field("5") from an owned string
C30_WitnessField ==
    /\ mode = "path" /\ pc = "returned" /\ call.op = "round trip"
    /\ call.self = Field("5")
    /\ call.res.value # Index(<<5, 0>>)

(***************************************************************************)
(* C31. ChangeTree::construct of an empty sequence returns Ok(None); for a *)
(* sequence with exactly one change of path p, it returns a tree that is a *)
(* chain of one Map node per Field step and one Array node per Index step  *)
(* of p, each with a single child, ending in a leaf Add (for Insert),      *)
(* Replace (for Replace) or Remove (for Delete) whose old/new are the      *)
(* change's values and whose changes list is exactly [that change].        *)
(***************************************************************************)
LeafOf(change) ==
    IF change.kind = "Insert" THEN TreeAdd(change.value, <<change>>)
    ELSE IF change.kind = "Replace" THEN TreeReplace(change.old, change.new, <<change>>)
    ELSE TreeRemove(change.old, <<change>>)
RECURSIVE IsSpine(_, _, _)
IsSpine(t, p, change) ==
    IF p = <<>> THEN t = LeafOf(change)
    ELSE IF Head(p).kind = "Field" THEN
        /\ t.node = "Map"
        /\ DOMAIN t.fields = {Head(p).name}
        /\ IsSpine(t.fields[Head(p).name], Tail(p), change)
    ELSE
        /\ t.node = "Array"
        /\ DOMAIN t.data = {Head(p).index}
        /\ IsSpine(t.data[Head(p).index], Tail(p), change)
Constructed == mode = "construct" /\ pc = "returned"
C31_ConstructSpine ==
    /\ (Constructed /\ call.iter = <<>>) =>
          /\ call.res.ok
          /\ call.res.tree = None
    /\ (Constructed /\ Len(call.iter) = 1) =>
          /\ call.res.ok
          /\ call.res.tree.some
          /\ IsSpine(call.res.tree.value, call.iter[1].path, call.iter[1])

\* one Replace below a field and an index became Map{a: Array{0: Replace}}
C31_Witness ==
    /\ Constructed
    /\ Len(call.iter) = 1
    /\ call.iter[1].kind = "Replace"
    /\ call.iter[1].path = <<Field("a"), Index(0)>>
    /\ call.iter[1].old # call.iter[1].new
    /\ call.res.tree.value.node = "Map"
\* the empty sequence gave no tree
C31_WitnessEmpty ==
    /\ Constructed
    /\ call.iter = <<>>
    /\ call.res.ok

(***************************************************************************)
(* C32. When an Insert whose path is q ++ r, with r non-empty, is added to *)
(* a tree that has an Add or Replace leaf at path q, the leaf's new value  *)
(* becomes the result of the primitive insert of the value at sub-path r   *)
(* inside the previous new value, the Insert is appended to the leaf's     *)
(* changes list, and if that primitive insert fails the construction fails *)
(* with InvalidChange.                                                     *)
(***************************************************************************)
InsertAdded ==
    /\ mode = "tree" /\ pc = "returned"
    /\ call.before.some
    /\ call.change.kind = "Insert"
\* the leaf of the tree before the call that sits at the first n steps of
\* the Insert's path
LeafAbove(n) == NodeAt(call.before.value, SubSeq(call.change.path, 1, n))
IsLeafAbove(n) ==
    /\ n < Len(call.change.path)
    /\ LeafAbove(n).some
    /\ LeafAbove(n).value.node \in {"Add", "Replace"}
\* the primitive insert at the rest of the path, inside the leaf's new value
PrimitiveBelow(n) ==
    apply_insert(LeafAbove(n).value.new,
                 SubSeq(call.change.path, n + 1, Len(call.change.path)),
                 call.change.value, call.change.path)
C32_InsertBelowLeaf ==
    InsertAdded =>
        \A n \in 0..Len(call.change.path) :
            IsLeafAbove(n) =>
                IF PrimitiveBelow(n).res.ok
                THEN /\ call.res.ok
                     /\ NodeAt(tree.value, SubSeq(call.change.path, 1, n))
                           = Some([LeafAbove(n).value EXCEPT
                                      !.new = PrimitiveBelow(n).this,
                                      !.changes = Append(@, call.change)])
                ELSE IsInvalidChange(call.res)

(***************************************************************************)
(* C33. When an Insert with step Index i reaches an Array node that has no *)
(* child at i, the node afterwards has the new spine at key i, every child *)
(* previously at a key k > i is now at key k+1 with its subtree unchanged, *)
(* and every child at a key k < i is unchanged; when a child already       *)
(* exists at i the change descends into it and no key of the node changes. *)
(***************************************************************************)
\* the Array node of the tree before the call that the first n steps of the
\* Insert's path lead to, and the node at the same place afterwards
ArrayAbove(n) == NodeAt(call.before.value, SubSeq(call.change.path, 1, n))
ArrayAfter(n) == NodeAt(tree.value, SubSeq(call.change.path, 1, n))
ReachesArray(n) ==
    /\ n < Len(call.change.path)
    /\ ArrayAbove(n).some
    /\ ArrayAbove(n).value.node = "Array"
    /\ call.change.path[n + 1].kind = "Index"
SpineBelow(n) ==
    IsSpine(ArrayAfter(n).value.data[call.change.path[n + 1].index],
            SubSeq(call.change.path, n + 2, Len(call.change.path)), call.change)
ShiftedAt(before, after, i) ==
    /\ DOMAIN after = {k \in DOMAIN before : k < i} \cup {i}
                         \cup {k + 1 : k \in {j \in DOMAIN before : j > i}}
    /\ \A k \in DOMAIN before :
          IF k < i THEN after[k] = before[k] ELSE after[k + 1] = before[k]
C33_WitnessBefore ==
    /\ InsertAdded
    /\ call.res.ok
    /\ call.before.value.node = "Array"
    /\ DOMAIN call.before.value.data = {0}
    /\ call.change.path = <<Index(1)>>
    /\ DOMAIN tree.value.data = {0, 1}
\* an Insert at [0, 1] went into the child at index 0
C33_WitnessDescends ==
    /\ InsertAdded
    /\ call.before.value.node = "Array"
    /\ call.res.ok
    /\ DOMAIN call.before.value.data = {0}
    /\ call.change.path = <<Index(0), Index(1)>>
    /\ DOMAIN tree.value.data = {0}
    /\ DOMAIN tree.value.data[0].data = {0, 1}

(***************************************************************************)
(* C34. Adding an Insert whose path strictly extends the path of a Remove  *)
(* leaf fails with InvalidChange carrying that Insert, and so does adding  *)
(* an Insert whose path ends exactly at an existing Add leaf, Replace      *)
(* leaf, or interior Map/Array node, or whose next step kind does not      *)
(* match the node kind (Field at an Array node, Index at a Map node); in   *)
(* each case construct returns the error and no tree.                      *)
(***************************************************************************)
\* the sequence before its last change, and that change
Earlier == SubSeq(call.iter, 1, Len(call.iter) - 1)
LastChange == call.iter[Len(call.iter)]
\* construct was given an Insert to add to the tree of the earlier changes
InsertOnTree ==
    /\ Constructed
    /\ call.iter # <<>>
    /\ LastChange.kind = "Insert"
    /\ construct(Earlier).ok
    /\ construct(Earlier).tree.some
\* the node of that tree at the first n steps of the Insert's path
NodeAbove(n) == NodeAt(construct(Earlier).tree.value, SubSeq(LastChange.path, 1, n))
BelowRemove ==
    \E n \in 0..(Len(LastChange.path) - 1) :
        NodeAbove(n).some /\ NodeAbove(n).value.node = "Remove"
EndsAtNode ==
    /\ NodeAbove(Len(LastChange.path)).some
    /\ NodeAbove(Len(LastChange.path)).value.node \in {"Add", "Replace", "Map", "Array"}
KindMismatch ==
    \E n \in 0..(Len(LastChange.path) - 1) :
        /\ NodeAbove(n).some
        /\ \/ NodeAbove(n).value.node = "Array" /\ LastChange.path[n + 1].kind = "Field"
           \/ NodeAbove(n).value.node = "Map" /\ LastChange.path[n + 1].kind = "Index"
C34_InconsistentInsertFails ==
    (InsertOnTree /\ (BelowRemove \/ EndsAtNode \/ KindMismatch)) =>
        /\ call.res = InvalidChange(LastChange)
        /\ "tree" \notin DOMAIN call.res

\* an Insert below a Remove leaf was refused
C34_Witness ==
    /\ InsertOnTree
    /\ BelowRemove
    /\ ~call.res.ok
\* an Insert that ends at an interior node was refused
C34_WitnessInterior ==
    /\ InsertOnTree
    /\ EndsAtNode
    /\ NodeAbove(Len(LastChange.path)).value.node = "Array"
    /\ ~call.res.ok
\* an Insert with an Index step at a Map node was refused
C34_WitnessKind ==
    /\ InsertOnTree
    /\ KindMismatch
    /\ construct(Earlier).tree.value.node = "Map"
    /\ ~call.res.ok

(***************************************************************************)
(* C36. After every successful ChangeTree::construct(C), each change of C  *)
(* appears in the changes list of exactly one leaf of the tree, no leaf    *)
(* holds a change that is not in C, and within each leaf the changes       *)
(* appear in the same relative order as in C.                              *)
(***************************************************************************)
\* the changes lists of the leaves of a tree, one entry for each leaf
RECURSIVE LeafLists(_)
LeafLists(t) ==
    IF t.node \in {"Map", "Array"}
    THEN LET sub == IF t.node = "Map" THEN t.fields ELSE t.data
             RECURSIVE All(_)
             All(ks) == IF ks = {} THEN <<>>
                        ELSE LET k == CHOOSE x \in ks : TRUE
                             IN  LeafLists(sub[k]) \o All(ks \ {k})
         IN  All(DOMAIN sub)
    ELSE <<t.changes>>
\* ways to give every change of C a leaf, and a place in its list, such
\* that the lists are filled exactly and in the order of C
Placements(iter, lists) ==
    {f \in [DOMAIN iter -> DOMAIN lists] :
        \A l \in DOMAIN lists :
            LET at == {n \in DOMAIN iter : f[n] = l}
            IN  /\ Cardinality(at) = Len(lists[l])
                /\ \A n \in at :
                      lists[l][Cardinality({m \in at : m <= n})] = iter[n]}
C36_WitnessAppended ==
    /\ Constructed /\ call.res.ok
    /\ Len(call.iter) = 2
    /\ call.res.tree.value.node = "Add"
    /\ call.res.tree.value.changes = call.iter
\* a Delete and an Insert went to one leaf, in that order
C36_WitnessOneLeaf ==
    /\ Constructed /\ call.res.ok
    /\ Len(call.iter) = 2
    /\ call.iter[1] # call.iter[2]
    /\ LeafLists(call.res.tree.value) = <<call.iter>>

(***************************************************************************)
(* C35. Whole-tree apply agrees with sequential apply: for every document  *)
(* A and change sequence C that apply_iter applies successfully to A,      *)
(* applying the tree construct(C) to A succeeds and yields a document      *)
(* equal to apply_iter(A, C); a Replace node whose old differs from the    *)
(* current value yields InvalidTreeChange carrying that leaf and the       *)
(* walked path, with the document unchanged.                               *)
(***************************************************************************)
TreeWasApplied == mode = "apply_tree" /\ pc = "returned" /\ call.op = "apply_tree"
\* the tree is the spine of one Replace whose old is not what the document
\* holds at its path
StaleReplace ==
    /\ Len(call.iter) = 1
    /\ call.iter[1].kind = "Replace"
    /\ get(call.before, call.iter[1].path).some
    /\ ~ValueEq(call.iter[1].old, get(call.before, call.iter[1].path).value)
C35_TreeApplyAgrees ==
    /\ (TreeWasApplied /\ call.seq.res.ok) =>
          /\ call.res.ok
          /\ ValueEq(doc, call.seq.this)
    /\ (TreeWasApplied /\ StaleReplace) =>
          /\ call.res = InvalidTreeChange(LeafOf(call.iter[1]), call.iter[1].path)
          /\ doc = call.before

(***************************************************************************)
(* C37: increase_offset(offsets, i) stores at key i the value s + 1, where *)
(* s is the shift stored at the greatest existing key <= i, or the value   *)
(* i + 1 when no key <= i exists; it leaves every other key of offsets     *)
(* unchanged and does not overflow or panic for any u32 index.             *)
(***************************************************************************)
OffsetIncreased == mode = "offset" /\ pc = "returned" /\ call.op = "increase_offset"
\* n + 1 in the integers, of a u32 n, as three limbs
Succ(n) ==
    IF n[1] + 1 < Limb THEN <<n[1] + 1, n[2], 0>>
    ELSE IF n[2] + 1 < Limb THEN <<0, n[2] + 1, 0>>
    ELSE <<0, 0, 1>>
KeysUpTo(offsets, i) == {k \in DOMAIN offsets : u32_le(k, i)}
IsGreatest(k, keys) == k \in keys /\ \A j \in keys : u32_le(j, k)
Shifted(offsets, i) ==
    IF KeysUpTo(offsets, i) = {} THEN Succ(i)
    ELSE Succ(offsets[CHOOSE k \in DOMAIN offsets : IsGreatest(k, KeysUpTo(offsets, i))])
C37_IncreaseOffset ==
    OffsetIncreased =>
        /\ ~call.res.panicked
        /\ DOMAIN tree = DOMAIN call.before \cup {call.index}
        /\ <<tree[call.index][1], tree[call.index][2], 0>>
               = Shifted(call.before, call.index)
        /\ \A k \in DOMAIN call.before : k # call.index => tree[k] = call.before[k]

(***************************************************************************)
(* C38. Waiter-queue invariant of the async Mutex: in every reachable      *)
(* state the first slot of the queue, if any, holds a waiter, the slot at  *)
(* distance k from the head is either empty or holds the waiter whose id   *)
(* is head id + k, and each waiting future's id occurs in exactly one      *)
(* slot; so the expect, assert and panic in remove_waker are never         *)
(* triggered by any sequence of polls, guard drops and future drops.       *)
(***************************************************************************)
SlotsOf(queue, id) == {n \in DOMAIN queue : queue[n].some /\ queue[n].value.id = id}
WaitingIds ==
    {tasks[t].future.value.id.value :
        t \in {u \in Tasks : tasks[u].future.some /\ tasks[u].future.value.id.some}}
C38_WaiterQueueInvariant ==
    mode = "mutex" =>
        /\ mutex.queue # <<>> => Head(mutex.queue).some
        /\ \A n \in DOMAIN mutex.queue :
              mutex.queue[n].some =>
                  mutex.queue[n].value.id = Head(mutex.queue).value.id + (n - 1)
        /\ \A id \in WaitingIds : Cardinality(SlotsOf(mutex.queue, id)) = 1
        /\ pc = "panicked" => call.poll = "fused"

\* a waiter behind the head has been dropped and a later one waits behind
\* its empty slot
C38_Witness ==
    /\ mode = "mutex" /\ pc = "idle"
    /\ call.op = "drop_future" /\ call.id.some
    /\ Head(call.before.queue).value.id # call.id.value
    /\ Len(mutex.queue) = 2 /\ ~mutex.queue[2].some
\* the head has obtained the guard and the empty slot behind it went with it
C38_WitnessCompacted ==
    /\ mode = "mutex" /\ pc = "idle"
    /\ call.op = "poll" /\ call.poll = "Ready"
    /\ Len(call.before.queue) = 3
    /\ ~call.before.queue[2].some
    /\ mutex.queue = <<call.before.queue[3]>>
\* a waiter behind the head has obtained the guard
C38_WitnessBehind ==
    /\ mode = "mutex" /\ pc = "idle"
    /\ call.op = "poll" /\ call.poll = "Ready"
    /\ Len(call.before.queue) = 2
    /\ Head(call.before.queue).value.waker # call.task
    /\ call.before.queue[2].some
    /\ Len(mutex.queue) = 2 /\ ~mutex.queue[2].some

(***************************************************************************)
(* C39. No lost wake-up: in every reachable state in which the mutex is    *)
(* unlocked and the waiter queue is non-empty, the waiter at the head of   *)
(* the queue has been woken since it last returned Pending, so the mutex   *)
(* is never left free with all queued waiters asleep.                      *)
(***************************************************************************)
FreeWithWaiters == mode = "mutex" /\ ~mutex.locked /\ mutex.queue # <<>>
C39_WitnessHeadDropped ==
    /\ FreeWithWaiters
    /\ HeadDropped
    /\ ~call.before.locked
\* a waiter behind the woken head has taken the mutex and given it back
C39_WitnessBarged ==
    /\ FreeWithWaiters
    /\ call.op = "drop_guard"
    /\ tasks[call.task].future.some
    /\ Len(mutex.queue) = 2 /\ ~mutex.queue[2].some

(***************************************************************************)
(* C40. Starvation freedom: assuming every guard is eventually dropped and *)
(* every woken lock future is eventually polled, every lock future that is *)
(* polled at least once and never dropped eventually obtains the guard,    *)
(* even when other callers keep issuing new lock() and try_lock()          *)
(* requests.                                                               *)
(***************************************************************************)
Waits(t) == tasks[t].future.some /\ tasks[t].future.value.id.some
Obtained(t) == tasks[t].future.some /\ tasks[t].future.value.fused
FutureDropped(t) == ~tasks[t].future.some
C40_StarvationFreedom ==
    \A t \in Tasks : Waits(t) ~> (Obtained(t) \/ FutureDropped(t))

=============================================================================
